---- MODULE Spec2Model ----
(***************************************************************************)
(* A model of db_mapper.py: the DatabaseMapper schema model, its two       *)
(* front-ends (parse_sql_file, parse_sqlite_db), the relationship          *)
(* inference heuristic (_find_potential_relationships), the merge of       *)
(* inferred and explicit relationships, and _suggest_indexes.              *)
(*                                                                         *)
(* A Python str is a sequence of one-character strings, so that every      *)
(* string operation of the code (split, strip, lower, the regular          *)
(* expressions) is computed character by character.  The alphabet is       *)
(* ASCII letters, digits, punctuation and the arrow U+2192 of the labels.  *)
(***************************************************************************)
EXTENDS Integers, Sequences, FiniteSets, TLC

VARIABLES tables, relationships, explicit_relationships, indexed_columns,
          assume_relationships, last_call, loads, calls

vars == <<tables, relationships, explicit_relationships, indexed_columns,
          assume_relationships, last_call, loads, calls>>

model_vars == <<tables, relationships, explicit_relationships, indexed_columns>>

(***************************************************************************)
(* Characters and the str methods the code uses.                           *)
(***************************************************************************)
UpperLetters == <<"A","B","C","D","E","F","G","H","I","J","K","L","M",
                  "N","O","P","Q","R","S","T","U","V","W","X","Y","Z">>
LowerLetters == <<"a","b","c","d","e","f","g","h","i","j","k","l","m",
                  "n","o","p","q","r","s","t","u","v","w","x","y","z">>
Digits == {"0","1","2","3","4","5","6","7","8","9"}

Range(s) == {s[i] : i \in 1..Len(s)}

\* the characters \s matches (within the alphabet)
WhiteSpace == {" ", "\t", "\n", "\r", "\f"}

IsSpace(c) == c \in WhiteSpace

UpperSet == Range(UpperLetters)

LowerSet == Range(LowerLetters)

\* the characters \w matches (within the alphabet)
WordChars == UpperSet \cup LowerSet \cup Digits \cup {"_"}

IsWord(c) == c \in WordChars

lower_char(c) ==
    IF c \in UpperSet
    THEN LowerLetters[CHOOSE i \in 1..26 : UpperLetters[i] = c]
    ELSE c

upper_char(c) ==
    IF c \in LowerSet
    THEN UpperLetters[CHOOSE i \in 1..26 : LowerLetters[i] = c]
    ELSE c

\* str.lower()
str_lower(s) == [i \in 1..Len(s) |-> lower_char(s[i])]

\* str.upper()
str_upper(s) == [i \in 1..Len(s) |-> upper_char(s[i])]

\* s[i:] with a 1-based i
From(s, i) == SubSeq(s, i, Len(s))

\* does sub occur in s at position i
MatchAt(s, i, sub) ==
    /\ i >= 1
    /\ i + Len(sub) - 1 <= Len(s)
    /\ \A k \in 1..Len(sub) : s[i + k - 1] = sub[k]

\* the same, ignoring case (re.IGNORECASE on a literal)
MatchAtNoCase(s, i, sub) ==
    /\ i >= 1
    /\ i + Len(sub) - 1 <= Len(s)
    /\ \A k \in 1..Len(sub) : lower_char(s[i + k - 1]) = lower_char(sub[k])

\* str.startswith(prefix)
startswith(s, prefix) == MatchAt(s, 1, prefix)

\* str.endswith(suffix)
endswith(s, suffix) == MatchAt(s, Len(s) - Len(suffix) + 1, suffix)

\* sub in s
contains(s, sub) == \E i \in 1..(Len(s) + 1) : MatchAt(s, i, sub)

\* str.find(sub) + 1 (0 when absent)
find(s, sub) ==
    IF contains(s, sub)
    THEN CHOOSE i \in 1..(Len(s) + 1) :
            MatchAt(s, i, sub) /\ \A j \in 1..(i - 1) : ~MatchAt(s, j, sub)
    ELSE 0

\* the part of s up to where the $ of a pattern matches first: $ matches at
\* the end of the string and also just before a line break that ends it
before_final_newline(s) ==
    IF Len(s) > 0 /\ s[Len(s)] = "\n" THEN SubSeq(s, 1, Len(s) - 1) ELSE s

\* str.count(c) for a single character c
count(s, c) == Cardinality({i \in 1..Len(s) : s[i] = c})

\* the first position >= i whose character is not in chars (Len(s)+1 if none)
SkipWhile(s, i, chars) ==
    CHOOSE j \in i..(Len(s) + 1) :
        /\ j = Len(s) + 1 \/ s[j] \notin chars
        /\ \A m \in i..(j - 1) : s[m] \in chars

\* the first position >= i whose character is in chars (Len(s)+1 if none)
SkipUntil(s, i, chars) ==
    CHOOSE j \in i..(Len(s) + 1) :
        /\ j = Len(s) + 1 \/ s[j] \in chars
        /\ \A m \in i..(j - 1) : s[m] \notin chars

\* the last position <= i whose character is not in chars (0 if none)
BackWhile(s, i, chars) ==
    CHOOSE j \in 0..i :
        /\ j = 0 \/ s[j] \notin chars
        /\ \A m \in (j + 1)..i : s[m] \in chars

\* str.rstrip(chars)
rstrip(s, chars) == SubSeq(s, 1, BackWhile(s, Len(s), chars))

\* str.lstrip(chars)
lstrip(s, chars) == From(s, SkipWhile(s, 1, chars))

\* str.strip(chars)
strip(s, chars) == rstrip(lstrip(s, chars), chars)

\* str.split(c) for a single character c
RECURSIVE split(_, _)
split(s, c) ==
    LET j == SkipUntil(s, 1, {c})
    IN  IF j > Len(s) THEN <<s>>
        ELSE <<SubSeq(s, 1, j - 1)>> \o split(From(s, j + 1), c)

\* sep.join(parts)
RECURSIVE join(_, _)
join(parts, sep) ==
    IF Len(parts) = 0 THEN <<>>
    ELSE IF Len(parts) = 1 THEN parts[1]
    ELSE parts[1] \o sep \o join(Tail(parts), sep)

\* str.split(None, 1): at most two parts, split at the first whitespace run
split_none_1(s) ==
    LET a == SkipWhile(s, 1, WhiteSpace)
        b == SkipUntil(s, a, WhiteSpace)
        c == SkipWhile(s, b, WhiteSpace)
    IN  IF a > Len(s) THEN <<>>
        ELSE IF c > Len(s) THEN <<SubSeq(s, a, b - 1)>>
        ELSE <<SubSeq(s, a, b - 1), From(s, c)>>

(***************************************************************************)
(* Python values.  None is a record no column or string equals.  A bool    *)
(* stored in 'pk' is the integer it is in Python (True == 1, False == 0):  *)
(* parse_sqlite_db stores the catalog's integer there, and every reader    *)
(* tests it for truth only.                                                *)
(***************************************************************************)
None == [py_none |-> TRUE]

bool(b) == IF b THEN 1 ELSE 0

truthy(v) == v # 0

\* U+0060, which a TLA+ string cannot hold: one character, written out
Backtick == "backtick"

\* the characters of .strip('"[]`')
QuoteChars == {"\"", "[", "]", Backtick}

(***************************************************************************)
(* Python containers.  A dict is the sequence of its items in insertion    *)
(* order; a list is a sequence.                                            *)
(***************************************************************************)
has_key(d, k) == \E i \in 1..Len(d) : d[i].key = k

dict_get(d, k) == d[CHOOSE i \in 1..Len(d) : d[i].key = k].value

\* d[k] = v : a new key goes last, an old key keeps its place
dict_set(d, k, v) ==
    IF has_key(d, k)
    THEN [i \in 1..Len(d) |-> IF d[i].key = k THEN [key |-> k, value |-> v] ELSE d[i]]
    ELSE Append(d, [key |-> k, value |-> v])

dict_keys(d) == [i \in 1..Len(d) |-> d[i].key]

\* x in lst
in_list(x, lst) == \E i \in 1..Len(lst) : lst[i] = x

\* the concatenation of a sequence of sequences
RECURSIVE flatten(_)
flatten(ss) == IF Len(ss) = 0 THEN <<>> ELSE ss[1] \o flatten(Tail(ss))

(***************************************************************************)
(* parse_sql_file, lines 281-287: normalisation and the CREATE TABLE scan. *)
(***************************************************************************)
\* re.sub(r'\s+', ' ', s), after the two replace calls: every whitespace run
\* becomes one space.  Computed by halves: a run cut by the middle leaves a
\* space on both sides, and one of the two is dropped.
RECURSIVE normalize(_)
normalize(s) ==
    IF Len(s) = 0 THEN <<>>
    ELSE IF Len(s) = 1 THEN (IF IsSpace(s[1]) THEN <<" ">> ELSE s)
    ELSE LET h == Len(s) \div 2
             left == normalize(SubSeq(s, 1, h))
             right == normalize(SubSeq(s, h + 1, Len(s)))
         IN  IF left[Len(left)] = " " /\ right[1] = " "
             THEN left \o Tail(right)
             ELSE left \o right

kw_CREATE == <<"C","R","E","A","T","E">>
kw_TABLE == <<"T","A","B","L","E">>
kw_IF == <<"I","F">>
kw_NOT == <<"N","O","T">>
kw_EXISTS == <<"E","X","I","S","T","S">>

\* a literal word followed by \s+ at i: the position after them, or 0 (also
\* when i is 0, so that a failed step makes the following ones fail)
WordSpaces(s, i, word) ==
    IF MatchAtNoCase(s, i, word) /\ i + Len(word) <= Len(s) /\ IsSpace(s[i + Len(word)])
    THEN SkipWhile(s, i + Len(word), WhiteSpace)
    ELSE 0

\* IF\s+NOT\s+EXISTS\s+ at i: the position after it, or 0
IfNotExistsGroup(s, i) ==
    WordSpaces(s, WordSpaces(s, WordSpaces(s, i, kw_IF), kw_NOT), kw_EXISTS)

\* (?:IF\s+NOT\s+EXISTS\s+)? at i: the position after the group when it is
\* there (what follows the group cannot match without it), else i
IfNotExists(s, i) == IF IfNotExistsGroup(s, i) = 0 THEN i ELSE IfNotExistsGroup(s, i)

\* the end of the pattern as it would be without (?:\s*;|\s*$): the first
\* ")" closes the body
CloseAfter_first_paren(s, e, j) == IF s[e] # ")" THEN 0 ELSE e + 1

\* \)(?:\s*;|\s*$) with the ")" at e and the first non-blank after it at j:
\* the position after the match, or 0
CloseAfter(s, e, j) ==
    IF s[e] # ")" THEN 0
    ELSE IF j <= Len(s) /\ s[j] = ";" THEN j + 1
    ELSE IF j > Len(s) THEN j
    ELSE 0

CloseAt(s, e) == CloseAfter(s, e, SkipWhile(s, e + 1, WhiteSpace))

\* (.*?)\)(?:\s*;|\s*$) from b: the first place the body can close, or 0
first_close(s, b) ==
    IF \E e \in b..Len(s) : CloseAt(s, e) # 0
    THEN CHOOSE e \in b..Len(s) :
            CloseAt(s, e) # 0 /\ \A x \in b..(e - 1) : CloseAt(s, x) = 0
    ELSE 0

\* the match, once its parts are placed: the name is s[n..m-1], the "(" is
\* at p and the closing ")" at e
create_match_of(s, n, m, p, e) ==
    IF e = 0 THEN [ok |-> FALSE]
    ELSE [ok |-> TRUE, name |-> SubSeq(s, n, m - 1),
          body |-> SubSeq(s, p + 1, e - 1), end |-> CloseAt(s, e)]

\* \s*\( after the name s[n..m-1], then the body
create_match_open(s, n, m, p) ==
    IF m = n \/ p > Len(s) \/ s[p] # "(" THEN [ok |-> FALSE]
    ELSE create_match_of(s, n, m, p, first_close(s, p + 1))

\* ([^\s(]+) from n
create_match_name(s, n, m) == create_match_open(s, n, m, SkipWhile(s, m, WhiteSpace))

\* what follows CREATE\s+TABLE\s+, which ends before b (0: it did not match)
create_match_table(s, b) ==
    IF b = 0 THEN [ok |-> FALSE]
    ELSE create_match_name(s, IfNotExists(s, b),
                           SkipUntil(s, IfNotExists(s, b), WhiteSpace \cup {"("}))

\* create_pattern tried at position i: [ok, name, body, end]
create_match_at(s, i) ==
    create_match_table(s, WordSpaces(s, WordSpaces(s, i, kw_CREATE), kw_TABLE))

\* re.finditer(create_pattern, sql_content, re.IGNORECASE) from position i:
\* the (group(1), group(2)) of each match, left to right, not overlapping; m
\* is the pattern tried at i
RECURSIVE create_matches(_, _)
create_matches_with(s, i, m) ==
    IF m.ok
    THEN <<[name |-> m.name, body |-> m.body]>> \o create_matches(s, m.end)
    ELSE create_matches(s, SkipUntil(s, i + 1, {"C", "c"}))

create_matches(s, i) ==
    IF i > Len(s) THEN <<>> ELSE create_matches_with(s, i, create_match_at(s, i))

(***************************************************************************)
(* parse_sql_file, lines 293-305: the comma split of a table body.         *)
(***************************************************************************)
\* the loop over table_def.split(','), from part k on, with the running
\* paren_count and the pieces gathered in current_def
RECURSIVE split_loop(_, _, _, _)
split_loop(parts, k, paren_count, current_def) ==
    IF k > Len(parts) THEN <<>>
    ELSE LET part == parts[k]
             pc == paren_count + count(part, "(") - count(part, ")")
             cur == Append(current_def, part)
         IN  IF pc = 0
             THEN <<join(cur, <<",">>)>> \o split_loop(parts, k + 1, pc, <<>>)
             ELSE split_loop(parts, k + 1, pc, cur)

\* column_defs as they would be without the parenthesis count of lines
\* 297-305: one definition per comma
column_defs_at_every_comma(table_def) == split(table_def, ",")

\* column_defs of a table body
column_defs(table_def) == split_loop(split(table_def, ","), 1, 0, <<>>)

(***************************************************************************)
(* _extract_column_info, lines 232-258.                                    *)
(***************************************************************************)
kw_PRIMARY_KEY == <<"P","R","I","M","A","R","Y"," ","K","E","Y">>
kw_NOT_NULL == <<"N","O","T"," ","N","U","L","L">>
kw_TEXT == <<"T","E","X","T">>

\* re.sub(r'--.*$', '', s): "." matches no line break, so a match lies in
\* the last line before the place where $ matches; the text from the first
\* "--" of that line up to that place is removed
strip_comment(s) ==
    LET body == before_final_newline(s)
        breaks == {k \in 1..Len(body) : body[k] = "\n"}
        start == IF breaks = {} THEN 1
                 ELSE (CHOOSE k \in breaks : \A j \in breaks : j <= k) + 1
        i == find(SubSeq(body, start, Len(body)), <<"-", "-">>)
    IN  IF i = 0 THEN s
        ELSE SubSeq(s, 1, start + i - 2) \o SubSeq(s, Len(body) + 1, Len(s))

\* re.search(r'(\w+)(?:\([^)]+\))?', definition).group(1), or 'TEXT': the
\* first run of word characters
first_word(definition) ==
    LET a == SkipUntil(definition, 1, WordChars)
        b == SkipWhile(definition, a, WordChars)
    IN  IF a > Len(definition) THEN kw_TEXT ELSE SubSeq(definition, a, b - 1)

\* lines 242-258, for parts = [name, definition]
column_info_of(name, definition) ==
    [name |-> strip(name, QuoteChars),
     type |-> first_word(definition),
     nullable |-> ~contains(definition, kw_NOT_NULL),
     pk |-> bool(contains(definition, kw_PRIMARY_KEY))]

\* lines 238-243
column_info_parts(parts) ==
    IF Len(parts) < 2 THEN None ELSE column_info_of(parts[1], str_upper(parts[2]))

extract_column_info(column_def) ==
    column_info_parts(split_none_1(strip(strip_comment(column_def), WhiteSpace)))

(***************************************************************************)
(* _extract_foreign_keys, lines 260-271.                                   *)
(***************************************************************************)
kw_FOREIGN == <<"F","O","R","E","I","G","N">>
kw_KEY == <<"K","E","Y">>
kw_REFERENCES == <<"R","E","F","E","R","E","N","C","E","S">>

\* \(([^)]+)\) with the "(" at p and the next ")" at q: [ok, group, end]
ParenGroupTo(s, p, q) ==
    IF p <= Len(s) /\ s[p] = "(" /\ q > p + 1 /\ q <= Len(s)
    THEN [ok |-> TRUE, group |-> SubSeq(s, p + 1, q - 1), end |-> q + 1]
    ELSE [ok |-> FALSE]

\* \s*\(([^)]+)\) at p: [ok, group, end]
ParenGroup(s, p) ==
    ParenGroupTo(s, SkipWhile(s, p, WhiteSpace),
                 SkipUntil(s, SkipWhile(s, p, WhiteSpace) + 1, {")"}))

\* the match, once its parts are placed: g1 is the local column group, the
\* table is s[c..d-1], g3 the optional referenced column group
fk_match_of(s, g1, c, d, g3) ==
    IF d = c THEN [ok |-> FALSE]
    ELSE [ok |-> TRUE, local |-> g1.group, table |-> SubSeq(s, c, d - 1),
          has_ref |-> g3.ok, ref |-> IF g3.ok THEN g3.group ELSE <<>>,
          end |-> IF g3.ok THEN g3.end ELSE d]

\* ([^\s(]+)(?:\s*\(([^)]+)\))? from c, where \s*REFERENCES\s+ ended (0: it
\* did not match)
fk_match_table(s, g1, c, d) ==
    IF c = 0 THEN [ok |-> FALSE] ELSE fk_match_of(s, g1, c, d, ParenGroup(s, d))

\* \s*REFERENCES\s+ after the local column group g1
fk_match_references(s, g1, c) ==
    fk_match_table(s, g1, c, IF c = 0 THEN 0 ELSE SkipUntil(s, c, WhiteSpace \cup {"("}))

fk_match_local(s, g1) ==
    IF ~g1.ok THEN [ok |-> FALSE]
    ELSE fk_match_references(s, g1,
            WordSpaces(s, SkipWhile(s, g1.end, WhiteSpace), kw_REFERENCES))

\* KEY\s*\(([^)]+)\) at a, where FOREIGN\s+ ended (0: it did not match)
fk_match_key(s, a) ==
    IF a # 0 /\ MatchAtNoCase(s, a, kw_KEY)
    THEN fk_match_local(s, ParenGroup(s, a + Len(kw_KEY)))
    ELSE [ok |-> FALSE]

\* fk_pattern tried at position i: [ok, local, table, ref, has_ref, end]
fk_match_at(s, i) == fk_match_key(s, WordSpaces(s, i, kw_FOREIGN))

\* lines 267-271 for one match
foreign_key_of(table_name, local_col, ref_table, m) ==
    <<table_name, ref_table, IF m.has_ref THEN strip(m.ref, QuoteChars) ELSE local_col>>

\* the tuples _extract_foreign_keys appends, scanning create_stmt from i; m
\* is the pattern tried at i
RECURSIVE extract_foreign_keys(_, _, _)
extract_foreign_keys_with(table_name, create_stmt, i, m) ==
    IF m.ok
    THEN <<foreign_key_of(table_name, strip(m.local, QuoteChars),
                          strip(m.table, QuoteChars), m)>>
         \o extract_foreign_keys(table_name, create_stmt, m.end)
    ELSE extract_foreign_keys(table_name, create_stmt,
                              SkipUntil(create_stmt, i + 1, {"F", "f"}))

extract_foreign_keys(table_name, create_stmt, i) ==
    IF i > Len(create_stmt) THEN <<>>
    ELSE extract_foreign_keys_with(table_name, create_stmt, i,
                                   fk_match_at(create_stmt, i))

(***************************************************************************)
(* parse_sql_file, lines 307-318: the columns of one CREATE TABLE body.    *)
(***************************************************************************)
kw_FOREIGN_KEY == <<"F","O","R","E","I","G","N"," ","K","E","Y">>
kw_UNIQUE == <<"U","N","I","Q","U","E">>
kw_CHECK == <<"C","H","E","C","K">>

\* col_def.strip().rstrip('); \n\t')
clean_col_def(col_def) == rstrip(strip(col_def, WhiteSpace), {")", ";", " ", "\n", "\t"})

\* col_def.upper().startswith(('FOREIGN KEY', 'PRIMARY KEY', 'UNIQUE', 'CHECK'))
starts_constraint(upper_def) ==
    \E k \in {kw_FOREIGN_KEY, kw_PRIMARY_KEY, kw_UNIQUE, kw_CHECK} :
        startswith(upper_def, k)

is_table_constraint(col_def) == starts_constraint(str_upper(col_def))

\* the loop "for col_def in column_defs", from definition k on
\* lines 310-318 for one cleaned definition: the column appended, if any
column_of(col_def, col_info) ==
    IF is_table_constraint(col_def) \/ col_info = None THEN <<>> ELSE <<col_info>>

process_column(col_def) == column_of(col_def, extract_column_info(col_def))

\* the loop as it would be if a definition without column info ended it
process_columns_until_failure(defs) ==
    LET failed(k) == /\ ~is_table_constraint(clean_col_def(defs[k]))
                     /\ extract_column_info(clean_col_def(defs[k])) = None
        stop == IF \E k \in 1..Len(defs) : failed(k)
                THEN CHOOSE k \in 1..Len(defs) : failed(k) /\ \A j \in 1..(k - 1) : ~failed(j)
                ELSE Len(defs) + 1
    IN  flatten([k \in 1..(stop - 1) |-> process_column(clean_col_def(defs[k]))])

process_columns(defs) ==
    flatten([k \in 1..Len(defs) |-> process_column(clean_col_def(defs[k]))])

(***************************************************************************)
(* _find_potential_relationships, lines 95-159.                            *)
(***************************************************************************)
Arrow == "→"

\* the patterns, lines 99-106: each is ^(\w+)<suffix>$
patterns == << <<"_","i","d">>, <<"I","D">>, <<"I","d">>, <<"_","I","D">>, <<"K","e","y">>, <<"_","k","e","y">> >>

\* ^(\w+)<suffix>$ on the text body
pattern_match_body(suffix, body) ==
    IF /\ Len(body) > Len(suffix)
       /\ endswith(body, suffix)
       /\ \A i \in 1..Len(body) : IsWord(body[i])
    THEN [group1 |-> SubSeq(body, 1, Len(body) - Len(suffix))]
    ELSE None

\* re.match(pattern, col_name): the match with its group(1), or None; the
\* match ends at the end of col_name or before the line break that ends it
pattern_match(suffix, col_name) ==
    pattern_match_body(suffix, before_final_newline(col_name))

\* the columns of a table whose 'pk' is true, in order
pk_cols_of(columns) == SelectSeq(columns, LAMBDA col : truthy(col.pk))

\* pk_columns, lines 109-113: table_name -> the name the loop assigns last
pk_columns(tbls) ==
    LET with_pk == SelectSeq(tbls, LAMBDA e : Len(pk_cols_of(e.value.columns)) > 0)
    IN  [i \in 1..Len(with_pk) |->
            [key |-> with_pk[i].key,
             value |-> LET pks == pk_cols_of(with_pk[i].value.columns)
                       IN  pks[Len(pks)].name]]

\* plural_candidates as it would be without lines 122-123, the y -> ies rule
plural_candidates_without_ies(base) ==
    {base, base \o <<"s">>}
    \cup (IF endswith(base, <<"s">>) THEN {SubSeq(base, 1, Len(base) - 1)} ELSE {})
    \cup (IF endswith(base, <<"i","e","s">>) THEN {SubSeq(base, 1, Len(base) - 3) \o <<"y">>} ELSE {})
    \cup (IF endswith(base, <<"s","s">>) THEN {base \o <<"e","s">>} ELSE {})
    \cup (IF endswith(base, <<"e","s">>) THEN {SubSeq(base, 1, Len(base) - 2)} ELSE {})

\* plural_candidates, lines 116-130
plural_candidates(base) ==
    {base, base \o <<"s">>}
    \cup (IF endswith(base, <<"s">>) THEN {SubSeq(base, 1, Len(base) - 1)} ELSE {})
    \cup (IF endswith(base, <<"y">>) THEN {SubSeq(base, 1, Len(base) - 1) \o <<"i","e","s">>} ELSE {})
    \cup (IF endswith(base, <<"i","e","s">>) THEN {SubSeq(base, 1, Len(base) - 3) \o <<"y">>} ELSE {})
    \cup (IF endswith(base, <<"s","s">>) THEN {base \o <<"e","s">>} ELSE {})
    \cup (IF endswith(base, <<"e","s">>) THEN {SubSeq(base, 1, Len(base) - 2)} ELSE {})

\* f"{col['name']} → {pk}"
label(child_col, parent_col) == child_col \o <<" ", Arrow, " ">> \o parent_col

\* lines 148-157: the first table name, in dict order, whose lower case is a
\* candidate ends the scan; it yields a tuple only if it has a primary key
scan_tables(tbls, table_name, col, candidates) ==
    LET hits == {i \in 1..Len(tbls) : str_lower(tbls[i].key) \in candidates}
        first == CHOOSE i \in hits : \A j \in hits : i <= j
        potential_table == tbls[first].key
        pks == pk_columns(tbls)
    IN  IF hits # {} /\ has_key(pks, potential_table)
        THEN << <<table_name, potential_table,
                  label(col.name, dict_get(pks, potential_table))>> >>
        ELSE <<>>

\* lines 142-157 for one pattern
match_pattern(tbls, table_name, col, pattern) ==
    LET match == pattern_match(pattern, str_lower(col.name))
    IN  IF match = None THEN <<>>
        ELSE scan_tables(tbls, table_name, col,
                         plural_candidates(str_lower(match.group1)))

\* lines 134-157 as they would be without the test of lines 138-139: the
\* table's own primary key is matched like any other column
match_column_without_skip(tbls, table_name, col) ==
    flatten([p \in 1..Len(patterns) |-> match_pattern(tbls, table_name, col, patterns[p])])

\* lines 134-157 for one column
match_column(tbls, table_name, col) ==
    LET pks == pk_columns(tbls)
        own_pk == IF has_key(pks, table_name) THEN dict_get(pks, table_name) ELSE <<>>
    IN  IF str_lower(col.name) = str_lower(own_pk) THEN <<>>
        ELSE flatten([p \in 1..Len(patterns) |->
                        match_pattern(tbls, table_name, col, patterns[p])])

\* the list _find_potential_relationships returns for self.tables = tbls
assumed_relationships(tbls) ==
    flatten([t \in 1..Len(tbls) |->
        flatten([c \in 1..Len(tbls[t].value.columns) |->
            match_column(tbls, tbls[t].key, tbls[t].value.columns[c])])])

(***************************************************************************)
(* The merge at the end of both front-ends, lines 216-230 and 326-340.     *)
(***************************************************************************)
\* rel[2].split('→')[0].strip()
child_col_of(lbl) == strip(split(lbl, Arrow)[1], WhiteSpace)

already_explicit(rel, explicit) ==
    \E i \in 1..Len(explicit) :
        /\ rel[1] = explicit[i][1]
        /\ rel[2] = explicit[i][2]
        /\ child_col_of(rel[3]) = child_col_of(explicit[i][3])

\* the loop "for rel in assumed", from element k on
RECURSIVE merge_loop(_, _, _, _)
merge_loop(rels, assumed, k, explicit) ==
    IF k > Len(assumed) THEN rels
    ELSE LET rel == assumed[k]
         IN  IF ~already_explicit(rel, explicit) /\ ~in_list(rel, rels)
             THEN merge_loop(Append(rels, rel), assumed, k + 1, explicit)
             ELSE merge_loop(rels, assumed, k + 1, explicit)

\* the merge as it would be if, with inference on, the list were built up
\* from an empty list instead of the copy line 327 makes
merge_from_empty(explicit, tbls, assume) ==
    IF assume
    THEN merge_loop(<<>>, assumed_relationships(tbls), 1, explicit)
    ELSE explicit

\* the merge as it would be if line 217 / 327 did not test the flag
merge_always_inferring(explicit, tbls, assume) ==
    merge_loop(explicit, assumed_relationships(tbls), 1, explicit)

\* self.relationships after the merge
merge(explicit, tbls, assume) ==
    IF assume
    THEN merge_loop(explicit, assumed_relationships(tbls), 1, explicit)
    ELSE explicit

(***************************************************************************)
(* _suggest_indexes, lines 530-593.                                        *)
(***************************************************************************)
sqlite_sequence == <<"s","q","l","i","t","e","_","s","e","q","u","e","n","c","e">>

\* f"CREATE INDEX IF NOT EXISTS idx_{table_name}_{col} ON {table_name}({col});"
create_index(table_name, col) ==
    <<"C","R","E","A","T","E"," ","I","N","D","E","X"," ","I","F"," ","N","O","T"," ","E","X","I","S","T","S"," ","i","d","x","_">> \o table_name \o <<"_">> \o col
    \o <<" ","O","N"," ">> \o table_name \o <<"(">> \o col \o <<")",";">>

\* line 542: next((col['name'] for col in columns if col['pk']), None); the
\* name found is held in a record, which None is not
first_pk(columns) ==
    LET pks == pk_cols_of(columns)
    IN  IF Len(pks) = 0 THEN None ELSE [name |-> pks[1].name]

\* lines 545-550: the child-column token of every relationship of the table
fk_cols_of(table_name, rels) ==
    LET mine == SelectSeq(rels, LAMBDA rel : rel[1] = table_name)
    IN  [i \in 1..Len(mine) |-> child_col_of(mine[i][3])]

\* where_patterns, lines 559-562: at_end is the trailing $ of the pattern
where_patterns ==
    << [lit |-> <<"s","t","a","t","u","s">>, at_end |-> TRUE], [lit |-> <<"t","y","p","e">>, at_end |-> TRUE],
       [lit |-> <<"c","a","t","e","g","o","r","y">>, at_end |-> TRUE], [lit |-> <<"i","s","_">>, at_end |-> FALSE],
       [lit |-> <<"h","a","s","_">>, at_end |-> FALSE], [lit |-> <<"a","c","t","i","v","e">>, at_end |-> TRUE],
       [lit |-> <<"d","a","t","e">>, at_end |-> TRUE], [lit |-> <<"c","r","e","a","t","e","d">>, at_end |-> TRUE],
       [lit |-> <<"u","p","d","a","t","e","d">>, at_end |-> TRUE], [lit |-> <<"d","e","l","e","t","e","d">>, at_end |-> TRUE],
       [lit |-> <<"n","a","m","e">>, at_end |-> TRUE] >>

\* any(re.search(pattern, col_name) for pattern in where_patterns)
where_match(col_name) ==
    \E i \in 1..Len(where_patterns) :
        IF where_patterns[i].at_end
        THEN endswith(before_final_newline(col_name), where_patterns[i].lit)
        ELSE contains(col_name, where_patterns[i].lit)

filter_types == {<<"I","N","T","E","G","E","R">>, <<"B","O","O","L","E","A","N">>, <<"D","A","T","E">>, <<"D","A","T","E","T","I","M","E">>, <<"T","I","M","E","S","T","A","M","P">>}

sort_types == {<<"T","E","X","T">>, <<"V","A","R","C","H","A","R">>, <<"C","H","A","R">>, <<"I","N","T","E","G","E","R">>, <<"D","A","T","E">>,
               <<"D","A","T","E","T","I","M","E">>, <<"T","I","M","E","S","T","A","M","P">>}

\* a str compared with pk_col, which is a str or None
str_eq(s, pk_col) == pk_col # None /\ s = pk_col.name

\* lines 554-567: the definite list of one table
definite_of(table_name, columns, rels) ==
    LET pk_col == first_pk(columns)
        fk_cols == fk_cols_of(table_name, rels)
        by_fk == SelectSeq(fk_cols, LAMBDA fk_col : ~str_eq(fk_col, pk_col))
        by_name == SelectSeq(columns, LAMBDA col :
                      /\ where_match(str_lower(col.name))
                      /\ ~str_eq(str_lower(col.name), pk_col)
                      /\ ~in_list(str_lower(col.name), fk_cols))
    IN  [i \in 1..Len(by_fk) |-> create_index(table_name, by_fk[i])]
        \o [i \in 1..Len(by_name) |-> create_index(table_name, by_name[i].name)]

\* lines 571-586: what one column adds to the possible list
possible_of_column(table_name, col, pk_col, fk_cols) ==
    LET col_name == str_lower(col.name)
        col_type == str_upper(col.type)
    IN  IF str_eq(col_name, pk_col) \/ in_list(col_name, fk_cols) THEN <<>>
        ELSE (IF col_type \in filter_types
              THEN <<create_index(table_name, col.name)>> ELSE <<>>)
             \o (IF /\ col_type \in sort_types
                    /\ \/ contains(col_name, <<"n","a","m","e">>)
                       \/ contains(col_name, <<"t","i","t","l","e">>)
                       \/ contains(col_name, <<"c","o","d","e">>)
                 THEN <<create_index(table_name, col.name)>> ELSE <<>>)

possible_of(table_name, columns, rels) ==
    flatten([c \in 1..Len(columns) |->
        possible_of_column(table_name, columns[c], first_pk(columns),
                           fk_cols_of(table_name, rels))])

\* one of the two dicts _suggest_indexes returns, from the list of every
\* table: the tables with a non-empty list, in the order of self.tables,
\* sqlite_sequence left out
suggestions(lists) ==
    SelectSeq(lists, LAMBDA e : e.key # sqlite_sequence /\ Len(e.value) > 0)

index_suggestions(tbls, rels) ==
    [definite_indexes |-> suggestions([i \in 1..Len(tbls) |->
        [key |-> tbls[i].key,
         value |-> definite_of(tbls[i].key, tbls[i].value.columns, rels)]]),
     possible_indexes |-> suggestions([i \in 1..Len(tbls) |->
        [key |-> tbls[i].key,
         value |-> possible_of(tbls[i].key, tbls[i].value.columns, rels)]])]

(***************************************************************************)
(* parse_sql_file, lines 289-324: the loop over the CREATE TABLE matches.  *)
(***************************************************************************)
\* what one match contributes: the table name, its columns and the tuples
\* _extract_foreign_keys appends
parse_statement(m) ==
    LET table_name == strip(m.name, QuoteChars)
    IN  [table_name |-> table_name,
         columns |-> process_columns(column_defs(m.body)),
         foreign_keys |-> extract_foreign_keys(table_name, m.body, 1)]

\* the statements of a file's text, in order
parse_statements(sql_content) ==
    LET ms == create_matches(normalize(sql_content), 1)
    IN  [i \in 1..Len(ms) |-> parse_statement(ms[i])]

\* lines 320-321 as they would be without the test "if columns"
store_table_always(tbls, stmt) ==
    dict_set(tbls, stmt.table_name, [columns |-> stmt.columns])

\* lines 320-321: a statement without columns stores nothing
store_table(tbls, stmt) ==
    IF Len(stmt.columns) > 0
    THEN dict_set(tbls, stmt.table_name, [columns |-> stmt.columns])
    ELSE tbls

\* self.tables after the statements from k on
RECURSIVE store_tables(_, _, _)
store_tables(tbls, stmts, k) ==
    IF k > Len(stmts) THEN tbls
    ELSE store_tables(store_table(tbls, stmts[k]), stmts, k + 1)

\* the tuples appended to self.explicit_relationships by all statements
all_foreign_keys(stmts) == flatten([i \in 1..Len(stmts) |-> stmts[i].foreign_keys])

(***************************************************************************)
(* parse_sqlite_db, lines 175-212: the loop over the catalog's tables.     *)
(* A catalog is what the queries return: for each row of sqlite_master,    *)
(* its table_info rows (name = col[1], type = col[2], notnull = col[3],    *)
(* pk = col[5]), its foreign_key_list rows (table = fk[2], from = fk[3],   *)
(* to = fk[4]) and its index_list rows (name = idx[1]) with the column     *)
(* names (idxinfo[2]) of their index_info rows.                            *)
(***************************************************************************)
kw_sqlite_autoindex == <<"s","q","l","i","t","e","_","a","u","t","o","i","n","d","e","x">>

\* lines 181-184
catalog_columns(t) ==
    [i \in 1..Len(t.table_info) |->
        [name |-> t.table_info[i].name, type |-> t.table_info[i].type,
         nullable |-> ~truthy(t.table_info[i].notnull), pk |-> t.table_info[i].pk]]

\* lines 190-195: fk[2] and fk[3] of every foreign_key_list row
catalog_foreign_keys(t) ==
    [i \in 1..Len(t.foreign_key_list) |->
        <<t.name, t.foreign_key_list[i].table, t.foreign_key_list[i].from>>]

\* the set as it would be without the test of lines 203-204: the columns of
\* the sqlite_autoindex indexes are taken too
catalog_indexed_cols_with_autoindex(t) ==
    UNION {Range(t.index_list[i].index_info) : i \in 1..Len(t.index_list)}
    \cup {col.name : col \in {c \in Range(catalog_columns(t)) : truthy(c.pk)}}

\* lines 198-211
catalog_indexed_cols(t) ==
    UNION {Range(t.index_list[i].index_info) :
             i \in {j \in 1..Len(t.index_list) :
                      ~startswith(t.index_list[j].name, kw_sqlite_autoindex)}}
    \cup {col.name : col \in {c \in Range(catalog_columns(t)) : truthy(c.pk)}}

RECURSIVE store_catalog(_, _, _)
store_catalog(tbls, catalog, k) ==
    IF k > Len(catalog) THEN tbls
    ELSE store_catalog(
            dict_set(tbls, catalog[k].name, [columns |-> catalog_columns(catalog[k])]),
            catalog, k + 1)

RECURSIVE store_indexed(_, _, _)
store_indexed(idx, catalog, k) ==
    IF k > Len(catalog) THEN idx
    ELSE store_indexed(dict_set(idx, catalog[k].name, catalog_indexed_cols(catalog[k])),
                       catalog, k + 1)

catalog_all_foreign_keys(catalog) ==
    flatten([i \in 1..Len(catalog) |-> catalog_foreign_keys(catalog[i])])

(***************************************************************************)
(* The files the front-ends are given.  A path either names one of the     *)
(* files below, or a generated DDL file, or nothing.                       *)
(***************************************************************************)
\* CREATE TABLE users (id INTEGER PRIMARY KEY, name TEXT);
\* CREATE TABLE orders (id INTEGER PRIMARY KEY, user_id INTEGER,
\*   price DECIMAL(10,2) NOT NULL, FOREIGN KEY (user_id) REFERENCES users(id));
shop_sql ==
    <<"C","R","E","A","T","E"," ","T","A","B","L","E"," ","u","s","e","r","s"," ","(","i","d"," ","I","N","T","E","G","E","R"," ","P","R","I","M","A","R","Y"," ","K","E","Y",","," ","n","a","m","e"," ","T","E","X","T",")",";","\n">>
    \o <<"C","R","E","A","T","E"," ","T","A","B","L","E"," ","o","r","d","e","r","s"," ","(","i","d"," ","I","N","T","E","G","E","R"," ","P","R","I","M","A","R","Y"," ","K","E","Y",","," ","u","s","e","r","_","i","d"," ","I","N","T","E","G","E","R",",","\n">>
    \o <<" "," ","p","r","i","c","e"," ","D","E","C","I","M","A","L","(","1","0",",","2",")"," ","N","O","T"," ","N","U","L","L",","," ","F","O","R","E","I","G","N"," ","K","E","Y"," ","(","u","s","e","r","_","i","d",")"," ","R","E","F","E","R","E","N","C","E","S"," ","u","s","e","r","s","(","i","d",")",")",";","\n">>

\* CREATE TABLE users (id INTEGER PRIMARY KEY, name TEXT);
\* CREATE TABLE messages (id INTEGER PRIMARY KEY, user_id INTEGER, sender INTEGER,
\*   receiver INTEGER, FOREIGN KEY (sender) REFERENCES users(id),
\*   FOREIGN KEY (receiver) REFERENCES users(id));
messages_sql ==
    <<"C","R","E","A","T","E"," ","T","A","B","L","E"," ","u","s","e","r","s"," ","(","i","d"," ","I","N","T","E","G","E","R"," ","P","R","I","M","A","R","Y"," ","K","E","Y",","," ","n","a","m","e"," ","T","E","X","T",")",";","\n">>
    \o <<"C","R","E","A","T","E"," ","T","A","B","L","E"," ","m","e","s","s","a","g","e","s"," ","(","i","d"," ","I","N","T","E","G","E","R"," ","P","R","I","M","A","R","Y"," ","K","E","Y",","," ","u","s","e","r","_","i","d"," ","I","N","T","E","G","E","R",","," ","s","e","n","d","e","r"," ","I","N","T","E","G","E","R",",","\n">>
    \o <<" "," ","r","e","c","e","i","v","e","r"," ","I","N","T","E","G","E","R",","," ","F","O","R","E","I","G","N"," ","K","E","Y"," ","(","s","e","n","d","e","r",")"," ","R","E","F","E","R","E","N","C","E","S"," ","u","s","e","r","s","(","i","d",")",",","\n">>
    \o <<" "," ","F","O","R","E","I","G","N"," ","K","E","Y"," ","(","r","e","c","e","i","v","e","r",")"," ","R","E","F","E","R","E","N","C","E","S"," ","u","s","e","r","s","(","i","d",")",")",";","\n">>

\* CREATE TABLE user (user_id INTEGER PRIMARY KEY);
\* CREATE TABLE orders (id INTEGER PRIMARY KEY, user_id INTEGER, buyer INTEGER,
\*   FOREIGN KEY (buyer) REFERENCES user(user_id));
buyers_sql ==
    <<"C","R","E","A","T","E"," ","T","A","B","L","E"," ","u","s","e","r"," ","(","u","s","e","r","_","i","d"," ","I","N","T","E","G","E","R"," ","P","R","I","M","A","R","Y"," ","K","E","Y",")",";","\n">>
    \o <<"C","R","E","A","T","E"," ","T","A","B","L","E"," ","o","r","d","e","r","s"," ","(","i","d"," ","I","N","T","E","G","E","R"," ","P","R","I","M","A","R","Y"," ","K","E","Y",","," ","u","s","e","r","_","i","d"," ","I","N","T","E","G","E","R",","," ","b","u","y","e","r"," ","I","N","T","E","G","E","R",",","\n">>
    \o <<" "," ","F","O","R","E","I","G","N"," ","K","E","Y"," ","(","b","u","y","e","r",")"," ","R","E","F","E","R","E","N","C","E","S"," ","u","s","e","r","(","u","s","e","r","_","i","d",")",")",";","\n">>

\* CREATE TABLE Accounts (ID INTEGER PRIMARY KEY, Name TEXT, is_active BOOLEAN);
\* CREATE TABLE Notes ("Name" TEXT PRIMARY KEY, account_id INTEGER, body TEXT);
accounts_sql ==
    <<"C","R","E","A","T","E"," ","T","A","B","L","E"," ","A","c","c","o","u","n","t","s"," ","(","I","D"," ","I","N","T","E","G","E","R"," ","P","R","I","M","A","R","Y"," ","K","E","Y",","," ","N","a","m","e"," ","T","E","X","T",","," ","i","s","_","a","c","t","i","v","e"," ","B","O","O","L","E","A","N",")",";","\n">>
    \o <<"C","R","E","A","T","E"," ","T","A","B","L","E"," ","N","o","t","e","s"," ","(","\"","N","a","m","e","\""," ","T","E","X","T"," ","P","R","I","M","A","R","Y"," ","K","E","Y",","," ","a","c","c","o","u","n","t","_","i","d"," ","I","N","T","E","G","E","R",","," ","b","o","d","y"," ","T","E","X","T",")",";","\n">>

\* -- schema to be written
\* SELECT 1;
empty_sql == <<"-","-"," ","s","c","h","e","m","a"," ","t","o"," ","b","e"," ","w","r","i","t","t","e","n","\n","S","E","L","E","C","T"," ","1",";","\n">>

\* shop.db, as sqlite 3.40 reports
\*   CREATE TABLE users (id INTEGER PRIMARY KEY, name TEXT NOT NULL);
\*   CREATE TABLE orders (id INTEGER PRIMARY KEY, user_id INTEGER REFERENCES users(id),
\*     code TEXT UNIQUE, status TEXT);
\*   CREATE INDEX idx_orders_status ON orders(status);
shop_db ==
    << [name |-> <<"u","s","e","r","s">>,
        table_info |-> << [name |-> <<"i","d">>, type |-> <<"I","N","T","E","G","E","R">>, notnull |-> 0, pk |-> 1],
                          [name |-> <<"n","a","m","e">>, type |-> <<"T","E","X","T">>, notnull |-> 1, pk |-> 0] >>,
        foreign_key_list |-> <<>>,
        index_list |-> <<>>],
       [name |-> <<"o","r","d","e","r","s">>,
        table_info |-> << [name |-> <<"i","d">>, type |-> <<"I","N","T","E","G","E","R">>, notnull |-> 0, pk |-> 1],
                          [name |-> <<"u","s","e","r","_","i","d">>, type |-> <<"I","N","T","E","G","E","R">>, notnull |-> 0, pk |-> 0],
                          [name |-> <<"c","o","d","e">>, type |-> <<"T","E","X","T">>, notnull |-> 0, pk |-> 0],
                          [name |-> <<"s","t","a","t","u","s">>, type |-> <<"T","E","X","T">>, notnull |-> 0, pk |-> 0] >>,
        foreign_key_list |-> << [table |-> <<"u","s","e","r","s">>, from |-> <<"u","s","e","r","_","i","d">>, to |-> <<"i","d">>] >>,
        index_list |-> << [name |-> <<"i","d","x","_","o","r","d","e","r","s","_","s","t","a","t","u","s">>, index_info |-> << <<"s","t","a","t","u","s">> >>],
                          [name |-> <<"s","q","l","i","t","e","_","a","u","t","o","i","n","d","e","x","_","o","r","d","e","r","s","_","1">>,
                           index_info |-> << <<"c","o","d","e">> >>] >>] >>

\* library.db, as sqlite 3.40 reports
\*   CREATE TABLE authors (id INTEGER PRIMARY KEY AUTOINCREMENT, name TEXT);
\*   CREATE TABLE books (shelf INTEGER, slot INTEGER, author_id INTEGER, editor INTEGER,
\*     PRIMARY KEY (shelf, slot), FOREIGN KEY (author_id) REFERENCES authors(id),
\*     FOREIGN KEY (editor) REFERENCES authors(id));
library_db ==
    << [name |-> <<"a","u","t","h","o","r","s">>,
        table_info |-> << [name |-> <<"i","d">>, type |-> <<"I","N","T","E","G","E","R">>, notnull |-> 0, pk |-> 1],
                          [name |-> <<"n","a","m","e">>, type |-> <<"T","E","X","T">>, notnull |-> 0, pk |-> 0] >>,
        foreign_key_list |-> <<>>,
        index_list |-> <<>>],
       [name |-> <<"s","q","l","i","t","e","_","s","e","q","u","e","n","c","e">>,
        table_info |-> << [name |-> <<"n","a","m","e">>, type |-> <<>>, notnull |-> 0, pk |-> 0],
                          [name |-> <<"s","e","q">>, type |-> <<>>, notnull |-> 0, pk |-> 0] >>,
        foreign_key_list |-> <<>>,
        index_list |-> <<>>],
       [name |-> <<"b","o","o","k","s">>,
        table_info |-> << [name |-> <<"s","h","e","l","f">>, type |-> <<"I","N","T","E","G","E","R">>, notnull |-> 0, pk |-> 1],
                          [name |-> <<"s","l","o","t">>, type |-> <<"I","N","T","E","G","E","R">>, notnull |-> 0, pk |-> 2],
                          [name |-> <<"a","u","t","h","o","r","_","i","d">>, type |-> <<"I","N","T","E","G","E","R">>, notnull |-> 0, pk |-> 0],
                          [name |-> <<"e","d","i","t","o","r">>, type |-> <<"I","N","T","E","G","E","R">>, notnull |-> 0, pk |-> 0] >>,
        foreign_key_list |-> << [table |-> <<"a","u","t","h","o","r","s">>, from |-> <<"e","d","i","t","o","r">>, to |-> <<"i","d">>],
                                [table |-> <<"a","u","t","h","o","r","s">>, from |-> <<"a","u","t","h","o","r","_","i","d">>, to |-> <<"i","d">>] >>,
        index_list |-> << [name |-> <<"s","q","l","i","t","e","_","a","u","t","o","i","n","d","e","x","_","b","o","o","k","s","_","1">>,
                           index_info |-> << <<"s","h","e","l","f">>, <<"s","l","o","t">> >>] >>] >>

\* depot.db, as sqlite 3.40 reports
\*   CREATE TABLE slots (shelf INTEGER, slot INTEGER, PRIMARY KEY (shelf, slot));
\*   CREATE TABLE guests (id INTEGER PRIMARY KEY);
\*   CREATE TABLE stays (slot_id INTEGER, guest_id INTEGER, note TEXT,
\*     PRIMARY KEY (slot_id, guest_id));
\*   CREATE TABLE books (id INTEGER PRIMARY KEY, slot_id INTEGER);
depot_db ==
    << [name |-> <<"s","l","o","t","s">>,
        table_info |-> << [name |-> <<"s","h","e","l","f">>, type |-> <<"I","N","T","E","G","E","R">>, notnull |-> 0, pk |-> 1],
                          [name |-> <<"s","l","o","t">>, type |-> <<"I","N","T","E","G","E","R">>, notnull |-> 0, pk |-> 2] >>,
        foreign_key_list |-> <<>>,
        index_list |-> << [name |-> <<"s","q","l","i","t","e","_","a","u","t","o","i","n","d","e","x","_","s","l","o","t","s","_","1">>, index_info |-> << <<"s","h","e","l","f">>, <<"s","l","o","t">> >>] >>],
       [name |-> <<"g","u","e","s","t","s">>,
        table_info |-> << [name |-> <<"i","d">>, type |-> <<"I","N","T","E","G","E","R">>, notnull |-> 0, pk |-> 1] >>,
        foreign_key_list |-> <<>>,
        index_list |-> <<>>],
       [name |-> <<"s","t","a","y","s">>,
        table_info |-> << [name |-> <<"s","l","o","t","_","i","d">>, type |-> <<"I","N","T","E","G","E","R">>, notnull |-> 0, pk |-> 1],
                          [name |-> <<"g","u","e","s","t","_","i","d">>, type |-> <<"I","N","T","E","G","E","R">>, notnull |-> 0, pk |-> 2],
                          [name |-> <<"n","o","t","e">>, type |-> <<"T","E","X","T">>, notnull |-> 0, pk |-> 0] >>,
        foreign_key_list |-> <<>>,
        index_list |-> << [name |-> <<"s","q","l","i","t","e","_","a","u","t","o","i","n","d","e","x","_","s","t","a","y","s","_","1">>, index_info |-> << <<"s","l","o","t","_","i","d">>, <<"g","u","e","s","t","_","i","d">> >>] >>],
       [name |-> <<"b","o","o","k","s">>,
        table_info |-> << [name |-> <<"i","d">>, type |-> <<"I","N","T","E","G","E","R">>, notnull |-> 0, pk |-> 1],
                          [name |-> <<"s","l","o","t","_","i","d">>, type |-> <<"I","N","T","E","G","E","R">>, notnull |-> 0, pk |-> 0] >>,
        foreign_key_list |-> <<>>,
        index_list |-> <<>>] >>

\* lines.db, as sqlite 3.40 reports: the names of orders.user_id, orders.status
\* and notes.note_id end with a line break
\*   CREATE TABLE users (id INTEGER PRIMARY KEY, name TEXT);
\*   CREATE TABLE orders (id INTEGER PRIMARY KEY, "user_id<LF>" INTEGER, "status<LF>" TEXT);
\*   CREATE TABLE notes ("note_id<LF>" INTEGER PRIMARY KEY, body TEXT);
lines_db ==
    << [name |-> <<"u","s","e","r","s">>,
        table_info |-> << [name |-> <<"i","d">>, type |-> <<"I","N","T","E","G","E","R">>, notnull |-> 0, pk |-> 1],
                          [name |-> <<"n","a","m","e">>, type |-> <<"T","E","X","T">>, notnull |-> 0, pk |-> 0] >>,
        foreign_key_list |-> <<>>,
        index_list |-> <<>>],
       [name |-> <<"o","r","d","e","r","s">>,
        table_info |-> << [name |-> <<"i","d">>, type |-> <<"I","N","T","E","G","E","R">>, notnull |-> 0, pk |-> 1],
                          [name |-> <<"u","s","e","r","_","i","d","\n">>, type |-> <<"I","N","T","E","G","E","R">>, notnull |-> 0, pk |-> 0],
                          [name |-> <<"s","t","a","t","u","s","\n">>, type |-> <<"T","E","X","T">>, notnull |-> 0, pk |-> 0] >>,
        foreign_key_list |-> <<>>,
        index_list |-> <<>>],
       [name |-> <<"n","o","t","e","s">>,
        table_info |-> << [name |-> <<"n","o","t","e","_","i","d","\n">>, type |-> <<"I","N","T","E","G","E","R">>, notnull |-> 0, pk |-> 1],
                          [name |-> <<"b","o","d","y">>, type |-> <<"T","E","X","T">>, notnull |-> 0, pk |-> 0] >>,
        foreign_key_list |-> <<>>,
        index_list |-> <<>>] >>

\* the text files and the database files that exist
SqlFiles ==
    << [path |-> <<"s","h","o","p",".","s","q","l">>, text |-> shop_sql],
       [path |-> <<"m","e","s","s","a","g","e","s",".","s","q","l">>, text |-> messages_sql],
       [path |-> <<"b","u","y","e","r","s",".","s","q","l">>, text |-> buyers_sql],
       [path |-> <<"a","c","c","o","u","n","t","s",".","s","q","l">>, text |-> accounts_sql],
       [path |-> <<"e","m","p","t","y",".","s","q","l">>, text |-> empty_sql] >>

DbFiles ==
    << [path |-> <<"s","h","o","p",".","d","b">>, catalog |-> shop_db],
       [path |-> <<"l","i","b","r","a","r","y",".","d","b">>, catalog |-> library_db] >>

\* paths that name no file
MissingPaths == {<<"n","o","f","i","l","e",".","s","q","l">>, <<"n","o","f","i","l","e",".","d","b">>}

SqlPaths == {SqlFiles[i].path : i \in 1..Len(SqlFiles)}

DbPaths == {DbFiles[i].path : i \in 1..Len(DbFiles)}

\* more database files: depot.db, shop.db under the name shop.db3, lines.db
MoreDbFiles ==
    << [path |-> <<"d","e","p","o","t",".","d","b">>, catalog |-> depot_db],
       [path |-> <<"s","h","o","p",".","d","b","3">>, catalog |-> shop_db],
       [path |-> <<"l","i","n","e","s",".","d","b">>, catalog |-> lines_db] >>

MoreDbPaths == {MoreDbFiles[i].path : i \in 1..Len(MoreDbFiles)}

(***************************************************************************)
(* Generated DDL files.  gen/<word>.sql holds one CREATE TABLE t whose     *)
(* body is the fragments the letters of <word> name, joined by ", ".       *)
(* ref/<target>/<col>.sql holds a table <target> with primary key id and a *)
(* table items with primary key id and an INTEGER column <col>.            *)
(***************************************************************************)
MaxFrags == 3

FragLetters == {"a", "n", "p", "f", "k", "u", "c", "x"}

Fragment(letter) ==
    CASE letter = "a" -> <<"i","d"," ","I","N","T","E","G","E","R"," ","P","R","I","M","A","R","Y"," ","K","E","Y">>
      [] letter = "n" -> <<"n","a","m","e"," ","T","E","X","T">>
      [] letter = "p" -> <<"p","r","i","c","e"," ","D","E","C","I","M","A","L","(","1","0",",","2",")"," ","N","O","T"," ","N","U","L","L">>
      [] letter = "f" -> <<"F","O","R","E","I","G","N"," ","K","E","Y"," ","(","c","a","t","_","i","d",")"," ","R","E","F","E","R","E","N","C","E","S"," ","c","a","t","e","g","o","r","i","e","s","(","i","d",")">>
      [] letter = "k" -> <<"P","R","I","M","A","R","Y"," ","K","E","Y"," ","(","i","d",","," ","n","a","m","e",")">>
      [] letter = "u" -> <<"U","N","I","Q","U","E"," ","(","n","a","m","e",")">>
      [] letter = "c" -> <<"C","H","E","C","K"," ","(","p","r","i","c","e"," ",">"," ","0",")">>
      [] letter = "x" -> <<"j","u","n","k">>

Words == UNION {[1..k -> FragLetters] : k \in 1..MaxFrags}

gen_body(word) == join([i \in 1..Len(word) |-> Fragment(word[i])], <<","," ">>)

gen_text(word) == <<"C","R","E","A","T","E"," ","T","A","B","L","E"," ","t"," ","(">> \o gen_body(word) \o <<")",";","\n">>

gen_path(word) == <<"g","e","n","/">> \o word \o <<".","s","q","l">>

GenPaths == {gen_path(w) : w \in Words}

\* the <word> of a path gen/<word>.sql
gen_word(path) == SubSeq(path, 5, Len(path) - 4)

is_gen_path(path) ==
    /\ Len(path) - 8 \in 1..MaxFrags
    /\ Range(gen_word(path)) \subseteq FragLetters
    /\ path = gen_path(gen_word(path))

RefTargets == {<<"c","a","t","e","g","o","r","i","e","s">>, <<"c","a","t","e","g","o","r","y">>, <<"c","a","t","e","g","o","r","y","s">>, <<"c","a","t","e","g","o","r","i","e">>,
               <<"c","a","t","e","g","o","r","y","_","l","o","g">>}

RefCols == {<<"c","a","t","e","g","o","r","y","_","i","d">>}

ref_text(target, col) ==
    <<"C","R","E","A","T","E"," ","T","A","B","L","E"," ">> \o target \o <<" ","(","i","d"," ","I","N","T","E","G","E","R"," ","P","R","I","M","A","R","Y"," ","K","E","Y",")",";","\n">>
    \o <<"C","R","E","A","T","E"," ","T","A","B","L","E"," ","i","t","e","m","s"," ","(","i","d"," ","I","N","T","E","G","E","R"," ","P","R","I","M","A","R","Y"," ","K","E","Y",","," ">> \o col \o <<" ","I","N","T","E","G","E","R",")",";","\n">>

ref_path(target, col) == <<"r","e","f","/">> \o target \o <<"/">> \o col \o <<".","s","q","l">>

RefPaths == {ref_path(t, c) : t \in RefTargets, c \in RefCols}

\* key/<target>/<col>/<fk|nofk>.sql: the parent table target and the table
\* items with the column col, which the file declares as a foreign key to
\* target (fk) or not (nofk)
KeyCols == {<<"c","a","t","e","g","o","r","y","_","i","d">>, <<"c","a","t","e","g","o","r","y","I","D">>, <<"c","a","t","e","g","o","r","y","I","d">>, <<"c","a","t","e","g","o","r","y","_","I","D">>, <<"c","a","t","e","g","o","r","y","K","e","y">>, <<"c","a","t","e","g","o","r","y","_","k","e","y">>}

key_text(target, col, declared) ==
    <<"C","R","E","A","T","E"," ","T","A","B","L","E"," ">> \o target \o <<" ","(","i","d"," ","I","N","T","E","G","E","R"," ","P","R","I","M","A","R","Y"," ","K","E","Y",")",";","\n","C","R","E","A","T","E"," ","T","A","B","L","E"," ","i","t","e","m","s"," ","(","i","d"," ","I","N","T","E","G","E","R"," ","P","R","I","M","A","R","Y"," ","K","E","Y",","," ">> \o col \o <<" ","I","N","T","E","G","E","R">>
    \o (IF declared
        THEN <<","," ","F","O","R","E","I","G","N"," ","K","E","Y"," ","(">> \o col \o <<")"," ","R","E","F","E","R","E","N","C","E","S"," ">> \o target \o <<"(","i","d",")">>
        ELSE <<>>)
    \o <<")",";","\n">>

key_path(target, col, declared) ==
    <<"k","e","y","/">> \o target \o <<"/">> \o col \o (IF declared THEN <<"/","f","k",".","s","q","l">> ELSE <<"/","n","o","f","k",".","s","q","l">>)

KeyFiles == RefTargets \X KeyCols \X BOOLEAN

KeyPaths == {key_path(f[1], f[2], f[3]) : f \in KeyFiles}

\* more files: without a statement the CREATE TABLE pattern matches
\* (blank, index, rowid, open), with fragments of a single token (junk), and
\* with a parent candidate that has no primary key (nopk)
blank_sql == <<>>

index_sql == <<"C","R","E","A","T","E"," ","I","N","D","E","X"," ","i","d","x","_","t","_","a"," ","O","N"," ","t","(","a",")",";","\n">>

rowid_sql ==
    <<"C","R","E","A","T","E"," ","T","A","B","L","E"," ","t"," ","(","i","d"," ","I","N","T","E","G","E","R"," ","P","R","I","M","A","R","Y"," ","K","E","Y",","," ","u","s","e","r","_","i","d"," ","I","N","T","E","G","E","R",",","\n">>
    \o <<" "," ","F","O","R","E","I","G","N"," ","K","E","Y"," ","(","u","s","e","r","_","i","d",")"," ","R","E","F","E","R","E","N","C","E","S"," ","u","s","e","r","s","(","i","d",")",")"," ","W","I","T","H","O","U","T"," ","R","O","W","I","D",";","\n">>

open_sql == <<"C","R","E","A","T","E"," ","T","A","B","L","E"," ","t"," ","(","i","d"," ","I","N","T","E","G","E","R"," ","P","R","I","M","A","R","Y"," ","K","E","Y",","," ","n","a","m","e"," ","T","E","X","T","\n">>

junk_sql ==
    <<"C","R","E","A","T","E"," ","T","A","B","L","E"," ","a"," ","(","i","d"," ","I","N","T","E","G","E","R"," ","P","R","I","M","A","R","Y"," ","K","E","Y",","," ","j","u","n","k",","," ","n","a","m","e"," ","T","E","X","T",")",";","\n">>
    \o <<"C","R","E","A","T","E"," ","T","A","B","L","E"," ","b"," ","(","j","u","n","k",")",";","\n">>
    \o <<"C","R","E","A","T","E"," ","T","A","B","L","E"," ","c"," ","(","o","o","p","s",","," ","a","_","i","d"," ","I","N","T","E","G","E","R",","," ","n","u","m","(","1",",","2",")",","," ","t","i","t","l","e"," ","T","E","X","T"," ","N","O","T"," ","N","U","L","L",")",";","\n">>

nopk_sql ==
    <<"C","R","E","A","T","E"," ","T","A","B","L","E"," ","c","a","t","e","g","o","r","y"," ","(","n","a","m","e"," ","T","E","X","T",")",";","\n">>
    \o <<"C","R","E","A","T","E"," ","T","A","B","L","E"," ","c","a","t","e","g","o","r","i","e","s"," ","(","i","d"," ","I","N","T","E","G","E","R"," ","P","R","I","M","A","R","Y"," ","K","E","Y",")",";","\n">>
    \o <<"C","R","E","A","T","E"," ","T","A","B","L","E"," ","i","t","e","m","s"," ","(","i","d"," ","I","N","T","E","G","E","R"," ","P","R","I","M","A","R","Y"," ","K","E","Y",","," ","c","a","t","e","g","o","r","y","_","i","d"," ","I","N","T","E","G","E","R",")",";","\n">>

\* bodies whose parentheses do not balance: t lacks a ")", u has one too many
unbal_sql ==
    <<"C","R","E","A","T","E"," ","T","A","B","L","E"," ","t"," ","(","i","d"," ","I","N","T","E","G","E","R"," ","P","R","I","M","A","R","Y"," ","K","E","Y",","," ","p","r","i","c","e"," ","D","E","C","I","M","A","L","(","1","0",",","2",")",";","\n">>
    \o <<"C","R","E","A","T","E"," ","T","A","B","L","E"," ","u"," ","(","a"," ","I","N","T",")",","," ","b"," ","I","N","T",")",";","\n">>
    \o <<"C","R","E","A","T","E"," ","T","A","B","L","E"," ","v"," ","(","a"," ","I","N","T",","," ","b"," ","N","U","M","(","1",",","2",")",","," ","c"," ","T","E","X","T",")",";","\n">>

\* the primary key of users has an arrow in its name, so the label inferred
\* for orders.user_id holds two arrows; the label for orders.item_id comes
\* before it
arrow_sql ==
    <<"C","R","E","A","T","E"," ","T","A","B","L","E"," ","i","t","e","m","s"," ","(","i","d"," ","I","N","T","E","G","E","R"," ","P","R","I","M","A","R","Y"," ","K","E","Y",")",";","\n">>
    \o <<"C","R","E","A","T","E"," ","T","A","B","L","E"," ","u","s","e","r","s"," ","(","\"","a","→","b","\""," ","I","N","T","E","G","E","R"," ","P","R","I","M","A","R","Y"," ","K","E","Y",")",";","\n">>
    \o <<"C","R","E","A","T","E"," ","T","A","B","L","E"," ","o","r","d","e","r","s"," ","(","i","d"," ","I","N","T","E","G","E","R"," ","P","R","I","M","A","R","Y"," ","K","E","Y",","," ","i","t","e","m","_","i","d"," ","I","N","T","E","G","E","R",","," ","u","s","e","r","_","i","d"," ","I","N","T","E","G","E","R",")",";","\n">>

MoreFiles ==
    << [path |-> <<"b","l","a","n","k",".","s","q","l">>, text |-> blank_sql],
       [path |-> <<"i","n","d","e","x",".","s","q","l">>, text |-> index_sql],
       [path |-> <<"r","o","w","i","d",".","s","q","l">>, text |-> rowid_sql],
       [path |-> <<"o","p","e","n",".","s","q","l">>, text |-> open_sql],
       [path |-> <<"j","u","n","k",".","s","q","l">>, text |-> junk_sql],
       [path |-> <<"n","o","p","k",".","s","q","l">>, text |-> nopk_sql],
       [path |-> <<"u","n","b","a","l",".","s","q","l">>, text |-> unbal_sql],
       [path |-> <<"a","r","r","o","w",".","s","q","l">>, text |-> arrow_sql] >>

MorePaths == {MoreFiles[i].path : i \in 1..Len(MoreFiles)}

\* os.path.exists(path)
os_path_exists(path) ==
    path \in SqlPaths \cup DbPaths \cup MoreDbPaths \cup RefPaths \cup KeyPaths \cup MorePaths
        \/ is_gen_path(path)

\* f.read() of a text file
read_text(path) ==
    IF path \in SqlPaths
    THEN SqlFiles[CHOOSE i \in 1..Len(SqlFiles) : SqlFiles[i].path = path].text
    ELSE IF path \in MorePaths
    THEN MoreFiles[CHOOSE i \in 1..Len(MoreFiles) : MoreFiles[i].path = path].text
    ELSE IF is_gen_path(path)
    THEN gen_text(gen_word(path))
    ELSE IF path \in KeyPaths
    THEN LET f == CHOOSE f \in KeyFiles : key_path(f[1], f[2], f[3]) = path
         IN  key_text(f[1], f[2], f[3])
    ELSE LET tc == CHOOSE tc \in RefTargets \X RefCols : ref_path(tc[1], tc[2]) = path
         IN  ref_text(tc[1], tc[2])

\* what the catalog queries return for a database file
read_catalog(path) ==
    LET files == DbFiles \o MoreDbFiles
    IN  files[CHOOSE i \in 1..Len(files) : files[i].path = path].catalog

\* lines 278-279: f.read() with encoding='utf-8' fails on the bytes of a
\* database file
decodes(path) == path \notin DbPaths \cup MoreDbPaths

(***************************************************************************)
(* The operations.  last_call records the operation that ran last: its     *)
(* name, its argument, the exception it raised ("" if none) and the value  *)
(* it returned.  loads counts the front-end calls that completed; calls    *)
(* counts the calls of _find_potential_relationships made in a row up to   *)
(* the latest call, and is 0 once another operation has run.               *)
(***************************************************************************)
MaxLoads == 2

MaxCalls == 2

called(op, arg, raised, ret) == [op |-> op, arg |-> arg, raised |-> raised, ret |-> ret]

\* DatabaseMapper.__init__, lines 73-93
Init ==
    /\ tables = <<>>
    /\ relationships = <<>>
    /\ explicit_relationships = <<>>
    /\ indexed_columns = <<>>
    /\ assume_relationships \in BOOLEAN
    /\ last_call = called("__init__", <<>>, "", None)
    /\ loads = 0
    /\ calls = 0

\* parse_sql_file as it would be if it started, like parse_sqlite_db at
\* line 173, with self.indexed_columns = {}
parse_sql_file_resetting(sql_path) ==
    IF ~os_path_exists(sql_path)
    THEN /\ last_call' = called("parse_sql_file", sql_path, "FileNotFoundError", None)
         /\ calls' = 0
         /\ UNCHANGED <<model_vars, assume_relationships, loads>>
    ELSE LET stmts == parse_statements(read_text(sql_path))
             tbls == store_tables(tables, stmts, 1)
             explicit == explicit_relationships \o all_foreign_keys(stmts)
         IN  /\ tables' = tbls
             /\ explicit_relationships' = explicit
             /\ indexed_columns' = <<>>
             /\ relationships' = merge(explicit, tbls, assume_relationships)
             /\ last_call' = called("parse_sql_file", sql_path, "", None)
             /\ loads' = loads + 1
             /\ calls' = 0
             /\ UNCHANGED assume_relationships

\* DatabaseMapper.parse_sql_file, lines 273-340
parse_sql_file(sql_path) ==
    IF ~os_path_exists(sql_path)
    THEN /\ last_call' = called("parse_sql_file", sql_path, "FileNotFoundError", None)
         /\ calls' = 0
         /\ UNCHANGED <<model_vars, assume_relationships, loads>>
    ELSE LET stmts == parse_statements(read_text(sql_path))
             tbls == store_tables(tables, stmts, 1)
             explicit == explicit_relationships \o all_foreign_keys(stmts)
         IN  /\ tables' = tbls
             /\ explicit_relationships' = explicit
             /\ relationships' = merge(explicit, tbls, assume_relationships)
             /\ last_call' = called("parse_sql_file", sql_path, "", None)
             /\ loads' = loads + 1
             /\ calls' = 0
             /\ UNCHANGED <<indexed_columns, assume_relationships>>

\* parse_sqlite_db as it would be if line 173 came before the test of line
\* 163: indexed_columns is emptied even when the file is missing
parse_sqlite_db_clearing_first(db_path) ==
    IF ~os_path_exists(db_path)
    THEN /\ last_call' = called("parse_sqlite_db", db_path, "FileNotFoundError", None)
         /\ calls' = 0
         /\ indexed_columns' = <<>>
         /\ UNCHANGED <<tables, relationships, explicit_relationships,
                        assume_relationships, loads>>
    ELSE LET catalog == read_catalog(db_path)
             tbls == store_catalog(tables, catalog, 1)
             explicit == explicit_relationships \o catalog_all_foreign_keys(catalog)
         IN  /\ tables' = tbls
             /\ explicit_relationships' = explicit
             /\ indexed_columns' = store_indexed(<<>>, catalog, 1)
             /\ relationships' = merge(explicit, tbls, assume_relationships)
             /\ last_call' = called("parse_sqlite_db", db_path, "", None)
             /\ loads' = loads + 1
             /\ calls' = 0
             /\ UNCHANGED assume_relationships

\* DatabaseMapper.parse_sqlite_db, lines 161-230
parse_sqlite_db(db_path) ==
    IF ~os_path_exists(db_path)
    THEN /\ last_call' = called("parse_sqlite_db", db_path, "FileNotFoundError", None)
         /\ calls' = 0
         /\ UNCHANGED <<model_vars, assume_relationships, loads>>
    ELSE LET catalog == read_catalog(db_path)
             tbls == store_catalog(tables, catalog, 1)
             explicit == explicit_relationships \o catalog_all_foreign_keys(catalog)
         IN  /\ tables' = tbls
             /\ explicit_relationships' = explicit
             /\ indexed_columns' = store_indexed(<<>>, catalog, 1)
             /\ relationships' = merge(explicit, tbls, assume_relationships)
             /\ last_call' = called("parse_sqlite_db", db_path, "", None)
             /\ loads' = loads + 1
             /\ calls' = 0
             /\ UNCHANGED assume_relationships

\* the call as it would be if it kept its result in self.relationships
find_potential_relationships_keeping ==
    /\ last_call' = called("_find_potential_relationships", <<>>, "",
                           assumed_relationships(tables))
    /\ relationships' = assumed_relationships(tables)
    /\ calls' = calls + 1
    /\ UNCHANGED <<tables, explicit_relationships, indexed_columns,
                   assume_relationships, loads>>

\* the call as it would be if the list of line 97 were self.relationships
\* instead of a new list: the tuples found are appended to what the list
\* holds, and the list is returned
find_potential_relationships_appending ==
    /\ last_call' = called("_find_potential_relationships", <<>>, "",
                           relationships \o assumed_relationships(tables))
    /\ relationships' = relationships \o assumed_relationships(tables)
    /\ calls' = calls + 1
    /\ UNCHANGED <<tables, explicit_relationships, indexed_columns,
                   assume_relationships, loads>>

\* a call of DatabaseMapper._find_potential_relationships, lines 95-159
find_potential_relationships ==
    /\ last_call' = called("_find_potential_relationships", <<>>, "",
                           assumed_relationships(tables))
    /\ calls' = calls + 1
    /\ UNCHANGED <<model_vars, assume_relationships, loads>>

\* a call of DatabaseMapper._suggest_indexes, lines 524-593
suggest_indexes ==
    /\ last_call' = called("_suggest_indexes", <<>>, "",
                           index_suggestions(tables, relationships))
    /\ calls' = 0
    /\ UNCHANGED <<model_vars, assume_relationships, loads>>

\* any sequence of front-end calls on one mapper, on the files that exist and
\* on paths that name nothing, with the two queries in between; a call of
\* _find_potential_relationships is followed by another operation
Next ==
    \/ loads < MaxLoads /\ \E path \in SqlPaths \cup MissingPaths : parse_sql_file(path)
    \/ loads < MaxLoads /\ \E path \in DbPaths \cup MissingPaths : parse_sqlite_db(path)
    \/ calls = 0 /\ find_potential_relationships
    \/ suggest_indexes

Spec == Init /\ [][Next]_vars

\* one load on a fresh mapper, of a generated DDL file or of one of the
\* further database files, then the queries, _find_potential_relationships
\* up to MaxCalls times in a row
NextGen ==
    \/ last_call.op = "__init__" /\ \E path \in GenPaths \cup RefPaths \cup MorePaths : parse_sql_file(path)
    \/ last_call.op = "__init__" /\ \E path \in MoreDbPaths : parse_sqlite_db(path)
    \/ calls < MaxCalls /\ find_potential_relationships
    \/ suggest_indexes

SpecGen == Init /\ [][NextGen]_vars

(***************************************************************************)
(* main, lines 1124-1166: the options --create-keys and                    *)
(* --create-sqlite-keys.  Each builds its own DatabaseMapper with          *)
(* assume_relationships=True, loads the input file with the front-end its  *)
(* name selects, prints statements for the output of                       *)
(* _find_potential_relationships and exits.  The variables hold that       *)
(* mapper; ret of last_call holds the lines printed.                       *)
(***************************************************************************)
\* lines 1127 and 1146: args.input_file.endswith(suffixes)
keys_suffixes == {<<".","d","b">>, <<".","s","q","l","i","t","e">>, <<".","s","q","l","i","t","e","3">>}

sqlite_keys_suffixes == {<<".","d","b">>, <<".","s","q","l","i","t","e">>, <<".","s","q","l","i","t","e","3">>, <<".","d","b","3">>}

is_sqlite_file(input_file, suffixes) == \E suffix \in suffixes : endswith(input_file, suffix)

\* the fields of a fresh mapper with assume_relationships=True after the
\* front-end call of lines 1127-1130 or 1146-1149
main_load(input_file, suffixes) ==
    IF is_sqlite_file(input_file, suffixes)
    THEN LET catalog == read_catalog(input_file)
             tbls == store_catalog(<<>>, catalog, 1)
             explicit == catalog_all_foreign_keys(catalog)
         IN  [tables |-> tbls, explicit_relationships |-> explicit,
              relationships |-> merge(explicit, tbls, TRUE),
              indexed_columns |-> store_indexed(<<>>, catalog, 1)]
    ELSE LET stmts == parse_statements(read_text(input_file))
             tbls == store_tables(<<>>, stmts, 1)
             explicit == all_foreign_keys(stmts)
         IN  [tables |-> tbls, explicit_relationships |-> explicit,
              relationships |-> merge(explicit, tbls, TRUE),
              indexed_columns |-> <<>>]

\* child_col, parent_col = label.split('→'), both stripped
label_cols(lbl) ==
    LET parts == split(lbl, Arrow)
    IN  [child_col |-> strip(parts[1], WhiteSpace), parent_col |-> strip(parts[2], WhiteSpace)]

\* the unpacking of lines 1136 and 1157 raises ValueError unless the label
\* holds exactly one arrow
unpackable(assumed) == \A i \in 1..Len(assumed) : Len(split(assumed[i][3], Arrow)) = 2

\* line 1139: the statement printed for one inferred relationship
alter_table(child, parent, child_col, parent_col) ==
    <<"A","L","T","E","R"," ","T","A","B","L","E"," ">> \o child \o <<"\n","A","D","D"," ","C","O","N","S","T","R","A","I","N","T"," ","f","k","_">> \o child \o <<"_">> \o parent
    \o <<"\n","F","O","R","E","I","G","N"," ","K","E","Y"," ","(">> \o child_col \o <<")"," ","R","E","F","E","R","E","N","C","E","S"," ">> \o parent \o <<"(">> \o parent_col \o <<")",";","\n">>

\* the tuples the loop of lines 1134-1139 prints a statement for: all of
\* them, or those before the first whose label line 1136 cannot unpack
printed_before_raise(assumed) ==
    LET bad == {i \in 1..Len(assumed) : Len(split(assumed[i][3], Arrow)) # 2}
    IN  IF bad = {} THEN Len(assumed)
        ELSE (CHOOSE i \in bad : \A j \in bad : i <= j) - 1

\* lines 1133-1140: what --create-keys prints; line 1140 is reached only if
\* no unpacking raised
create_keys_output(assumed) ==
    << <<"B","E","G","I","N",";">> >>
    \o [i \in 1..printed_before_raise(assumed) |->
          alter_table(assumed[i][1], assumed[i][2],
                      label_cols(assumed[i][3]).child_col, label_cols(assumed[i][3]).parent_col)]
    \o (IF unpackable(assumed) THEN << <<"C","O","M","M","I","T",";">> >> ELSE <<>>)

\* line 1164: one clause of a table's group; the last has no comma
fk_clause(child_col, parent, parent_col, comma) ==
    <<" "," "," "," ","F","O","R","E","I","G","N"," ","K","E","Y"," ","(">> \o child_col \o <<")"," ","R","E","F","E","R","E","N","C","E","S"," ">> \o parent \o <<"(">> \o parent_col \o <<")">>
    \o (IF comma THEN <<",">> ELSE <<>>)

\* lines 1161-1165 for one child table: its name, its clauses, an empty line
fk_group(table, fks) ==
    << table \o <<":">> >>
    \o [i \in 1..Len(fks) |->
          fk_clause(label_cols(fks[i][3]).child_col, fks[i][2],
                    label_cols(fks[i][3]).parent_col, i < Len(fks))]
    \o << <<>> >>

\* the keys of fk_map, lines 1155-1160: the child tables in the order of
\* their first relationship
RECURSIVE fk_map_keys(_, _)
fk_map_keys(assumed, k) ==
    IF k > Len(assumed) THEN <<>>
    ELSE (IF \E j \in 1..(k - 1) : assumed[j][1] = assumed[k][1]
          THEN <<>> ELSE <<assumed[k][1]>>)
         \o fk_map_keys(assumed, k + 1)

\* lines 1152-1165: what --create-sqlite-keys prints; the loop of lines
\* 1155-1160 ends before the first print, so nothing is printed when an
\* unpacking raises
create_sqlite_keys_output(assumed) ==
    LET keys == fk_map_keys(assumed, 1)
    IN  IF unpackable(assumed)
        THEN flatten([i \in 1..Len(keys) |->
                 fk_group(keys[i], SelectSeq(assumed, LAMBDA rel : rel[1] = keys[i]))])
        ELSE None

\* one run of an option of main on input_file; lines is what the option
\* prints for the relationships inferred, up to the ValueError of the
\* unpacking if one is raised
main_option(option, input_file, suffixes, lines) ==
    IF ~os_path_exists(input_file)
    THEN /\ last_call' = called(option, input_file, "FileNotFoundError", None)
         /\ assume_relationships' = TRUE
         /\ UNCHANGED <<model_vars, loads>>
         /\ calls' = 0
    ELSE IF ~is_sqlite_file(input_file, suffixes) /\ ~decodes(input_file)
    THEN /\ last_call' = called(option, input_file, "UnicodeDecodeError", None)
         /\ assume_relationships' = TRUE
         /\ UNCHANGED <<model_vars, loads>>
         /\ calls' = 0
    ELSE LET m == main_load(input_file, suffixes)
             assumed == assumed_relationships(m.tables)
         IN  /\ tables' = m.tables
             /\ explicit_relationships' = m.explicit_relationships
             /\ relationships' = m.relationships
             /\ indexed_columns' = m.indexed_columns
             /\ assume_relationships' = TRUE
             /\ loads' = loads + 1
             /\ calls' = 0
             /\ last_call' = IF unpackable(assumed)
                             THEN called(option, input_file, "", lines)
                             ELSE called(option, input_file, "ValueError", lines)

\* main with --create-keys, lines 1124-1141
create_keys(input_file) ==
    main_option("--create-keys", input_file, keys_suffixes,
                create_keys_output(assumed_relationships(main_load(input_file, keys_suffixes).tables)))

\* main with --create-sqlite-keys, lines 1143-1166
create_sqlite_keys(input_file) ==
    main_option("--create-sqlite-keys", input_file, sqlite_keys_suffixes,
                create_sqlite_keys_output(assumed_relationships(main_load(input_file, sqlite_keys_suffixes).tables)))

\* the input files of main
MainPaths ==
    SqlPaths \cup DbPaths \cup MoreDbPaths \cup MissingPaths \cup RefPaths \cup KeyPaths \cup MorePaths

\* one run of main with one of the two options
NextMain ==
    \/ last_call.op = "__init__" /\ \E input_file \in MainPaths : create_keys(input_file)
    \/ last_call.op = "__init__" /\ \E input_file \in MainPaths : create_sqlite_keys(input_file)

SpecMain == Init /\ [][NextMain]_vars

(***************************************************************************)
(* Properties.  Each is stated over the state the operations leave behind: *)
(* last_call tells which operation ran last, on what, and what it          *)
(* returned.                                                               *)
(***************************************************************************)
loaded(op) == last_call.op = op /\ last_call.raised = ""

no_duplicates(lst) == \A i, j \in 1..Len(lst) : lst[i] = lst[j] => i = j

\* the entries of rels from child table a to parent table b
between(rels, a, b) == SelectSeq(rels, LAMBDA rel : rel[1] = a /\ rel[2] = b)

n_users == <<"u","s","e","r","s">>
n_user == <<"u","s","e","r">>
n_orders == <<"o","r","d","e","r","s">>
n_items == <<"i","t","e","m","s">>
n_t == <<"t">>
n_id == <<"i","d">>
n_name == <<"n","a","m","e">>
n_price == <<"p","r","i","c","e">>
n_user_id == <<"u","s","e","r","_","i","d">>
n_cat_id == <<"c","a","t","_","i","d">>
n_category_id == <<"c","a","t","e","g","o","r","y","_","i","d">>
n_categories == <<"c","a","t","e","g","o","r","i","e","s">>
n_category == <<"c","a","t","e","g","o","r","y">>
n_categorys == <<"c","a","t","e","g","o","r","y","s">>
n_categorie == <<"c","a","t","e","g","o","r","i","e">>
n_category_log == <<"c","a","t","e","g","o","r","y","_","l","o","g">>
n_DECIMAL == <<"D","E","C","I","M","A","L">>
shop_sql_path == <<"s","h","o","p",".","s","q","l">>
buyers_sql_path == <<"b","u","y","e","r","s",".","s","q","l">>

\* C1: after any sequence of parse_sql_file / parse_sqlite_db calls, with
\* assume_relationships true or false, every tuple of explicit_relationships
\* is a member of relationships.
ExplicitDominance ==
    \A i \in 1..Len(explicit_relationships) :
        in_list(explicit_relationships[i], relationships)

\* two loads completed with inference on, and the merge added an inferred
\* tuple to the explicit ones
ExplicitDominanceWitness ==
    /\ loads = 2
    /\ assume_relationships
    /\ Len(explicit_relationships) >= 2
    /\ Len(relationships) > Len(explicit_relationships)

\* C2: after a front-end load of any schema on a fresh mapper, neither
\* explicit_relationships nor relationships holds the same (fromTable,
\* toTable, label) tuple more than once.
NoDuplicateRelationships ==
    (loads = 1 /\ (loaded("parse_sql_file") \/ loaded("parse_sqlite_db")))
        => no_duplicates(explicit_relationships) /\ no_duplicates(relationships)

\* C3: shop.sql declares users with primary key id and orders with user_id
\* and FOREIGN KEY (user_id) REFERENCES users(id); after parse_sql_file with
\* assume_relationships = True the inferred suggestion for user_id is
\* suppressed and relationships holds exactly one (orders, users, *) entry.
SuppressionCorrectness ==
    (loads = 1 /\ loaded("parse_sql_file") /\ last_call.arg = shop_sql_path
               /\ assume_relationships)
        => /\ ~in_list(<<n_orders, n_users, label(n_user_id, n_id)>>, relationships)
           /\ Len(between(relationships, n_orders, n_users)) = 1

\* C4: an inferred relationship on a column that has no declared foreign key
\* survives the merge even when the table declares a foreign key to the same
\* parent through another column.  buyers.sql declares the foreign key of
\* orders on buyer, and user_id is inferred to reference user.
InferredOnOtherColumnKept ==
    (loads = 1 /\ loaded("parse_sql_file") /\ last_call.arg = buyers_sql_path
               /\ assume_relationships)
        => in_list(<<n_orders, n_user, label(n_user_id, n_user_id)>>, relationships)

category_rel(target) == <<n_items, target, label(n_category_id, n_id)>>

\* the file ref/<target>/category_id.sql was loaded: target (with primary
\* key id) and items (with the plain column category_id) are the tables
category_case(target) ==
    /\ last_call.op = "_find_potential_relationships"
    /\ dict_keys(tables) = <<target, n_items>>

\* C6, as claimed: category_id on items matches a parent table named
\* categories, category, categorys or categorie, and does not match
\* category_log.
PluralizationAsClaimed ==
    /\ \A target \in {n_categories, n_category, n_categorys, n_categorie} :
          category_case(target) => last_call.ret = <<category_rel(target)>>
    /\ category_case(n_category_log) => last_call.ret = <<>>

\* C6, amended: category_id on items matches a parent table named
\* categories, category or categorys, and matches neither categorie nor
\* category_log.
PluralizationMatching ==
    /\ \A target \in {n_categories, n_category, n_categorys} :
          category_case(target) => last_call.ret = <<category_rel(target)>>
    /\ \A target \in {n_categorie, n_category_log} :
          category_case(target) => last_call.ret = <<>>

\* inference ran on the schema with the table categories and found it
PluralizationMatchingWitness ==
    /\ category_case(n_categories)
    /\ last_call.ret = <<category_rel(n_categories)>>

\* a generated file gen/<word>.sql was parsed, and this is the state
\* parse_sql_file left
gen_loaded == loaded("parse_sql_file") /\ is_gen_path(last_call.arg)

\* the column names the fragments of word stand for, in order
expected_names(word) ==
    LET cols == SelectSeq(word, LAMBDA letter : letter \in {"a", "n", "p"})
    IN  [i \in 1..Len(cols) |->
            CASE cols[i] = "a" -> n_id [] cols[i] = "n" -> n_name [] cols[i] = "p" -> n_price]

\* C7: the fragment "price DECIMAL(10,2) NOT NULL" is parsed into exactly
\* one column named price, of type DECIMAL and not nullable, wherever it
\* stands in the table body: the columns of the table are those of its
\* column fragments, one each and in order, and each price column is that
\* record.
ParenthesisSafeSplitting ==
    (gen_loaded /\ "p" \in Range(gen_word(last_call.arg)))
        => /\ has_key(tables, n_t)
           /\ LET columns == dict_get(tables, n_t).columns
              IN  /\ [i \in 1..Len(columns) |-> columns[i].name]
                        = expected_names(gen_word(last_call.arg))
                  /\ \A i \in 1..Len(columns) :
                        columns[i].name = n_price
                            => columns[i] = [name |-> n_price, type |-> n_DECIMAL,
                                             nullable |-> FALSE, pk |-> 0]

\* the price fragment stood between two other column fragments
ParenthesisSafeSplittingWitness ==
    /\ gen_loaded
    /\ gen_word(last_call.arg) = <<"a", "p", "n">>
    /\ Len(dict_get(tables, n_t).columns) = 3
    /\ dict_get(tables, n_t).columns[2].name = n_price

\* C8: the body "id INTEGER PRIMARY KEY, name TEXT, FOREIGN KEY (cat_id)
\* REFERENCES categories(id)" yields exactly the two columns id and name,
\* and exactly one explicit relationship, (t, categories, "cat_id → id").
ConstraintFragmentExclusion ==
    (gen_loaded /\ gen_word(last_call.arg) = <<"a", "n", "f">>)
        => /\ has_key(tables, n_t)
           /\ LET columns == dict_get(tables, n_t).columns
              IN  [i \in 1..Len(columns) |-> columns[i].name] = <<n_id, n_name>>
           /\ explicit_relationships = << <<n_t, n_categories, label(n_cat_id, n_id)>> >>

\* C9: a CREATE TABLE statement whose body holds only table-level
\* constraint fragments (FOREIGN KEY, PRIMARY KEY, UNIQUE, CHECK) adds no
\* entry for its table to tables, when parsed on a fresh mapper.
EmptyTableSkip ==
    (gen_loaded /\ Range(gen_word(last_call.arg)) \subseteq {"f", "k", "u", "c"})
        => ~has_key(tables, n_t)

\* a body of three constraint fragments was parsed: its foreign key was
\* recorded, its table was not
EmptyTableSkipWitness ==
    /\ gen_loaded
    /\ gen_word(last_call.arg) = <<"k", "f", "c">>
    /\ tables = <<>>
    /\ Len(explicit_relationships) = 1

\* the statements of lst that index column col of table table_name
indexes_on(d, table_name, col) ==
    IF has_key(d, table_name)
    THEN SelectSeq(dict_get(d, table_name), LAMBDA stmt : stmt = create_index(table_name, col))
    ELSE <<>>

\* C10: for every table and every column of it flagged as primary key,
\* whatever the case of its name and however many the table has, no
\* statement in the definite or the possible output of _suggest_indexes
\* for that table indexes that column.
IndexSuggestionExclusivity ==
    last_call.op = "_suggest_indexes"
        => \A t \in 1..Len(tables) : \A c \in 1..Len(tables[t].value.columns) :
              LET col == tables[t].value.columns[c]
              IN  truthy(col.pk)
                    => /\ indexes_on(last_call.ret.definite_indexes, tables[t].key, col.name) = <<>>
                       /\ indexes_on(last_call.ret.possible_indexes, tables[t].key, col.name) = <<>>

\* the statements for table_name in both outputs of _suggest_indexes
suggested(ret, table_name) ==
    (IF has_key(ret.definite_indexes, table_name)
     THEN dict_get(ret.definite_indexes, table_name) ELSE <<>>)
    \o (IF has_key(ret.possible_indexes, table_name)
        THEN dict_get(ret.possible_indexes, table_name) ELSE <<>>)

\* C11: the classification of _suggest_indexes is mutually exclusive: for
\* every table and column, the definite and the possible lists together
\* hold at most one CREATE INDEX statement for that table and column.
IndexClassificationExclusive ==
    last_call.op = "_suggest_indexes"
        => \A t \in 1..Len(tables) : \A c \in 1..Len(tables[t].value.columns) :
              Len(SelectSeq(suggested(last_call.ret, tables[t].key),
                            LAMBDA stmt : stmt = create_index(tables[t].key,
                                                              tables[t].value.columns[c].name))) <= 1

\* C12: every foreign-key child column gets a definite index suggestion
\* unless it is the primary key.  The schema with the tables users and
\* orders (shop.sql, shop.db) declares one foreign key, on orders.user_id,
\* which is not the primary key of orders.
ForeignKeyColumnsIndexed ==
    (/\ last_call.op = "_suggest_indexes"
     /\ loads = 1
     /\ dict_keys(tables) = <<n_users, n_orders>>
     /\ Len(explicit_relationships) = 1)
        => /\ has_key(last_call.ret.definite_indexes, n_orders)
           /\ in_list(create_index(n_orders, n_user_id),
                      dict_get(last_call.ret.definite_indexes, n_orders))

\* C13: --create-keys and --create-sqlite-keys emit statements only for
\* relationships the source does not declare: when the input file declares
\* the foreign key items.<col> -> <target> (the files key/.../fk.sql), or
\* orders.user_id -> users (shop.sql), no ALTER TABLE statement and no
\* FOREIGN KEY clause printed is for that child table, child column and
\* parent table.
KeysOnlyForUndeclared ==
    /\ \A f \in KeyFiles :
          (last_call.raised = "" /\ last_call.arg = key_path(f[1], f[2], TRUE))
            => /\ last_call.op = "--create-keys"
                    => ~in_list(alter_table(n_items, f[1], f[2], n_id), last_call.ret)
               /\ last_call.op = "--create-sqlite-keys"
                    => \A comma \in BOOLEAN :
                          ~in_list(fk_clause(f[2], f[1], n_id, comma), last_call.ret)
    /\ (last_call.raised = "" /\ last_call.arg = shop_sql_path)
            => /\ last_call.op = "--create-keys"
                    => ~in_list(alter_table(n_orders, n_users, n_user_id, n_id), last_call.ret)
               /\ last_call.op = "--create-sqlite-keys"
                    => \A comma \in BOOLEAN :
                          ~in_list(fk_clause(n_user_id, n_users, n_id, comma), last_call.ret)

\* C14: when the input path does not exist, parse_sql_file and
\* parse_sqlite_db raise FileNotFoundError before touching the model:
\* tables, explicit_relationships, relationships and indexed_columns are
\* after the failed call what they were before it.
MissingFileLeavesModel ==
    [][(last_call'.op \in {"parse_sql_file", "parse_sqlite_db"}
            /\ last_call'.arg \in MissingPaths)
        => /\ last_call'.raised = "FileNotFoundError"
           /\ model_vars' = model_vars]_vars

\* parse_sqlite_db failed on a missing path after a load that filled the
\* model, indexed_columns included
MissingFileLeavesModelWitness ==
    /\ last_call.op = "parse_sqlite_db"
    /\ last_call.raised = "FileNotFoundError"
    /\ Len(tables) > 0
    /\ Len(relationships) > 0
    /\ Len(indexed_columns) > 0

\* the files whose text create_pattern does not match anywhere
NoTablePaths == {<<"b","l","a","n","k",".","s","q","l">>, <<"i","n","d","e","x",".","s","q","l">>, <<"r","o","w","i","d",".","s","q","l">>, <<"o","p","e","n",".","s","q","l">>}

\* C15: parse_sql_file on a fresh mapper with an existing file whose text
\* matches no CREATE TABLE statement completes without error and leaves
\* tables, explicit_relationships and relationships empty.
PermissiveEmptyInput ==
    (last_call.op = "parse_sql_file" /\ last_call.arg \in NoTablePaths)
        => /\ last_call.raised = ""
           /\ tables = <<>>
           /\ explicit_relationships = <<>>
           /\ relationships = <<>>

\* the file whose CREATE TABLE is followed by WITHOUT ROWID was parsed
PermissiveEmptyInputWitness ==
    /\ loaded("parse_sql_file")
    /\ last_call.arg = <<"r","o","w","i","d",".","s","q","l">>
    /\ loads = 1
    /\ tables = <<>>

\* the names of the columns of table table_name
column_names(table_name) ==
    LET columns == dict_get(tables, table_name).columns
    IN  [i \in 1..Len(columns) |-> columns[i].name]

\* C16: a fragment of a CREATE TABLE body that is a single token gives no
\* column, and every other column fragment of the table and every other
\* table of the file is still extracted, in declaration order.  In
\* gen/<word>.sql the fragment x is the token junk; junk.sql holds the
\* tables a (id, junk, name), b (junk) and c (oops, a_id, num(1,2), title).
LocalFailurePolicy ==
    /\ (gen_loaded /\ "x" \in Range(gen_word(last_call.arg)))
          => IF expected_names(gen_word(last_call.arg)) = <<>>
             THEN ~has_key(tables, n_t)
             ELSE /\ has_key(tables, n_t)
                  /\ column_names(n_t) = expected_names(gen_word(last_call.arg))
    /\ (loaded("parse_sql_file") /\ last_call.arg = <<"j","u","n","k",".","s","q","l">>)
          => /\ dict_keys(tables) = << <<"a">>, <<"c">> >>
             /\ column_names(<<"a">>) = <<n_id, n_name>>
             /\ column_names(<<"c">>) = << <<"a","_","i","d">>, <<"t","i","t","l","e">> >>

\* junk.sql was parsed: the columns after each single token are there
LocalFailurePolicyWitness ==
    /\ loaded("parse_sql_file")
    /\ last_call.arg = <<"j","u","n","k",".","s","q","l">>
    /\ has_key(tables, <<"c">>)
    /\ Len(dict_get(tables, <<"c">>).columns) = 2

\* what the front-end op produces from path on a newly constructed mapper
fresh_load(op, path, assume) ==
    IF op = "parse_sqlite_db"
    THEN LET catalog == read_catalog(path)
             tbls == store_catalog(<<>>, catalog, 1)
             explicit == catalog_all_foreign_keys(catalog)
         IN  [tables |-> tbls, explicit_relationships |-> explicit,
              relationships |-> merge(explicit, tbls, assume)]
    ELSE LET stmts == parse_statements(read_text(path))
             tbls == store_tables(<<>>, stmts, 1)
             explicit == all_foreign_keys(stmts)
         IN  [tables |-> tbls, explicit_relationships |-> explicit,
              relationships |-> merge(explicit, tbls, assume)]

\* C17: after a second front-end call on the same DatabaseMapper, tables,
\* explicit_relationships and relationships are what that call alone
\* produces on a fresh mapper; nothing of the first call remains.
RebuiltOnEachCall ==
    (last_call.op \in {"parse_sql_file", "parse_sqlite_db"}
        /\ last_call.raised = "" /\ loads >= 2)
        => LET alone == fresh_load(last_call.op, last_call.arg, assume_relationships)
           IN  /\ tables = alone.tables
               /\ explicit_relationships = alone.explicit_relationships
               /\ relationships = alone.relationships

\* the tuples of rels that are not in explicit_relationships
not_explicit(rels) == {rel \in Range(rels) : ~in_list(rel, explicit_relationships)}

\* C18: with assume_relationships false, relationships after a load is
\* explicit_relationships, same tuples in the same order; with it true,
\* every tuple of relationships that is not in explicit_relationships is
\* in the list _find_potential_relationships returns.
RelationshipsComposition ==
    /\ (~assume_relationships /\ loads >= 1)
          => relationships = explicit_relationships
    /\ (assume_relationships /\ loads >= 1)
          => not_explicit(relationships) \subseteq Range(assumed_relationships(tables))
    /\ (assume_relationships /\ loads >= 1
            /\ last_call.op = "_find_potential_relationships")
          => not_explicit(relationships) \subseteq Range(last_call.ret)

\* a load with the flag off of a model that has a declared relationship and
\* for which inference returns a tuple that is not declared
RelationshipsCompositionWitness ==
    /\ ~assume_relationships
    /\ last_call.op \in {"parse_sql_file", "parse_sqlite_db"}
    /\ last_call.raised = ""
    /\ Len(explicit_relationships) > 0
    /\ not_explicit(assumed_relationships(tables)) # {}

\* with the flag on: a tuple that is not declared is in relationships and
\* in the list the call returned
RelationshipsInferredWitness ==
    /\ assume_relationships
    /\ last_call.op = "_find_potential_relationships"
    /\ not_explicit(relationships) # {}
    /\ not_explicit(relationships) \subseteq Range(last_call.ret)

\* C19: parse_sql_file leaves indexed_columns as it was, whatever the file.
DdlLeavesIndexedColumns ==
    [][last_call'.op = "parse_sql_file" => indexed_columns' = indexed_columns]_vars

\* a DDL file was parsed by a mapper that holds the indexes of a database
DdlLeavesIndexedColumnsWitness ==
    /\ loaded("parse_sql_file")
    /\ loads >= 2
    /\ Len(indexed_columns) > 0

\* the positions, in dict order, of the tables whose lower-cased name is a
\* candidate and which have a registered primary key
candidates_with_pk(tbls, candidates) ==
    {i \in 1..Len(tbls) : /\ str_lower(tbls[i].key) \in candidates
                          /\ has_key(pk_columns(tbls), tbls[i].key)}

\* the tuple C20 expects for column col of table_name and the pattern, if any
expected_match(tbls, table_name, col, pattern) ==
    LET match == pattern_match(pattern, str_lower(col.name))
        wins == IF match = None THEN {}
                ELSE candidates_with_pk(tbls, plural_candidates(str_lower(match.group1)))
        first == CHOOSE i \in wins : \A j \in wins : i <= j
    IN  IF wins = {} THEN {}
        ELSE {<<table_name, tbls[first].key,
                label(col.name, dict_get(pk_columns(tbls), tbls[first].key))>>}

\* C20: for a column that is not a primary key and matches a naming
\* pattern, inference returns the relationship to the first table, in dict
\* order, whose lower-cased name is a candidate and which has a primary
\* key, even when a candidate-named table without one comes earlier.
FirstMatchWithPrimaryKey ==
    last_call.op = "_find_potential_relationships"
        => \A t \in 1..Len(tables) :
             \A c \in 1..Len(tables[t].value.columns) :
               \A p \in 1..Len(patterns) :
                 tables[t].value.columns[c].pk = 0
                   => expected_match(tables, tables[t].key, tables[t].value.columns[c],
                                     patterns[p]) \subseteq Range(last_call.ret)

\* C21: a column of items named in any of the six forms category_id,
\* categoryID, categoryId, category_ID, categoryKey, category_key, with a
\* table named category or categorys (the base, the base plus s) that has
\* the primary key id and no declared foreign key, yields the inferred
\* relationship from items to that table.
SixNamingForms ==
    \A target \in {n_category, n_categorys} : \A col \in KeyCols :
        (last_call.op = "--create-keys" /\ last_call.raised = ""
            /\ last_call.arg = key_path(target, col, FALSE))
          => /\ <<n_items, target, label(col, n_id)>> \in Range(relationships)
             /\ alter_table(n_items, target, col, n_id) \in Range(last_call.ret)

\* the first column of table_name flagged primary key, or None
registered_first(table_name) == first_pk(dict_get(tables, table_name).columns)

\* C22: the primary-key column inference registers for a table is its
\* first flagged column: every inferred relationship targets a table with
\* a flagged column and names the first one after the arrow, no inferred
\* relationship starts from the first flagged column of its table, and in
\* depot.db, where stays has the key (slot_id, guest_id), the column
\* guest_id is not the one skipped.
FirstPrimaryKeyRegistered ==
    (last_call.op \in {"--create-keys", "--create-sqlite-keys"} /\ last_call.raised = "")
      => /\ \A rel \in not_explicit(relationships) :
              /\ registered_first(rel[2]) # None
              /\ str_eq(label_cols(rel[3]).parent_col, registered_first(rel[2]))
              /\ ~str_eq(label_cols(rel[3]).child_col, registered_first(rel[1]))
         /\ last_call.arg = <<"d","e","p","o","t",".","d","b">>
              => <<<<"s","t","a","y","s">>, <<"g","u","e","s","t","s">>, label(<<"g","u","e","s","t","_","i","d">>, n_id)>> \in Range(relationships)

\* the front-end an option with the given suffixes selects for input_file
front_end(input_file, suffixes) ==
    IF is_sqlite_file(input_file, suffixes) THEN "parse_sqlite_db" ELSE "parse_sql_file"

\* C25: for a given input path every action of main selects the same
\* front-end: what the option that ran left behind is what the front-end
\* selected under the suffixes of line 1127 leaves, and what the one selected
\* under the suffixes of line 1146 leaves.
FrontEndByPathOnly ==
    (last_call.op \in {"--create-keys", "--create-sqlite-keys"}
        /\ os_path_exists(last_call.arg))
      => /\ front_end(last_call.arg, keys_suffixes) = front_end(last_call.arg, sqlite_keys_suffixes)
         /\ \A suffixes \in {keys_suffixes, sqlite_keys_suffixes} :
              /\ (last_call.raised = "UnicodeDecodeError")
                    = (front_end(last_call.arg, suffixes) = "parse_sql_file"
                          /\ ~decodes(last_call.arg))
              /\ last_call.raised # "UnicodeDecodeError"
                    => tables = main_load(last_call.arg, suffixes).tables

\* (child, parent, referenced column) for every foreign_key_list row of the
\* catalog, in the order the rows are reported
referenced_tuples(catalog) ==
    flatten([i \in 1..Len(catalog) |->
        [j \in 1..Len(catalog[i].foreign_key_list) |->
            <<catalog[i].name, catalog[i].foreign_key_list[j].table,
              catalog[i].foreign_key_list[j].to>>]])

\* C23: for every foreign key child.c REFERENCES parent(p) of the catalog,
\* parse_sqlite_db appends (child, parent, p): on a fresh mapper
\* explicit_relationships is the list of these tuples, so that shop.db
\* gives the tuple parse_sql_file records for shop.sql.
CatalogRecordsReferencedColumn ==
    (loaded("parse_sqlite_db") /\ loads = 1)
      => /\ explicit_relationships = referenced_tuples(read_catalog(last_call.arg))
         /\ last_call.arg = <<"s","h","o","p",".","d","b">>
              => explicit_relationships
                    = fresh_load("parse_sql_file", shop_sql_path, FALSE).explicit_relationships

\* the names of the columns of catalog table t flagged primary key
flagged(t) == {t.table_info[i].name : i \in {j \in 1..Len(t.table_info) : t.table_info[j].pk # 0}}

\* the columns of the indexes of t whose name does not start with
\* sqlite_autoindex
named_by_index(t) ==
    UNION {Range(t.index_list[i].index_info) :
             i \in {j \in 1..Len(t.index_list) :
                      SubSeq(t.index_list[j].name, 1, 16) # kw_sqlite_autoindex}}

\* C24: after parse_sqlite_db, indexed_columns has an entry for every table
\* of the catalog; it holds every column flagged primary key and no column
\* that only an index named sqlite_autoindex... covers.
IndexedColumnsOfCatalog ==
    loaded("parse_sqlite_db")
      => LET catalog == read_catalog(last_call.arg)
         IN  \A k \in 1..Len(catalog) :
               /\ has_key(indexed_columns, catalog[k].name)
               /\ flagged(catalog[k]) \subseteq dict_get(indexed_columns, catalog[k].name)
               /\ dict_get(indexed_columns, catalog[k].name)
                     \subseteq flagged(catalog[k]) \cup named_by_index(catalog[k])

\* shop.db was read: orders.code, covered only by sqlite_autoindex_orders_1,
\* is left out, the primary key id and the indexed status are in
IndexedColumnsOfCatalogWitness ==
    /\ loaded("parse_sqlite_db")
    /\ last_call.arg = <<"s","h","o","p",".","d","b">>
    /\ dict_get(indexed_columns, n_orders) = {n_id, <<"s","t","a","t","u","s">>}

\* the names of the columns of table_name, as a set
names_of(table_name) ==
    {dict_get(tables, table_name).columns[i].name :
        i \in 1..Len(dict_get(tables, table_name).columns)}

\* how many columns of table_name have the name col_name
columns_named(table_name, col_name) ==
    Cardinality({i \in 1..Len(dict_get(tables, table_name).columns) :
                    dict_get(tables, table_name).columns[i].name = col_name})

\* C26: every relationship _find_potential_relationships returns is
\* well-formed: its tables are keys of tables, the column before the arrow
\* is a column of the child table and not the primary key registered for
\* it, the column after the arrow is a column of the parent table flagged
\* primary key, and no column contributes more than one relationship.  The
\* columns are the ones the label is written from, character for character.
InferredWellFormed ==
    last_call.op = "_find_potential_relationships"
      => \A i \in 1..Len(last_call.ret) :
           LET rel == last_call.ret[i]
               pks == pk_columns(tables)
           IN  /\ has_key(tables, rel[1])
               /\ has_key(tables, rel[2])
               /\ \E child_col \in names_of(rel[1]) :
                    \E c \in Range(dict_get(tables, rel[2]).columns) :
                      /\ rel[3] = label(child_col, c.name)
                      /\ truthy(c.pk)
                      /\ has_key(pks, rel[1]) => child_col # dict_get(pks, rel[1])
                      /\ Cardinality({j \in 1..Len(last_call.ret) :
                                        /\ last_call.ret[j][1] = rel[1]
                                        /\ startswith(last_call.ret[j][3], label(child_col, <<>>))})
                            <= columns_named(rel[1], child_col)

\* the call returned a relationship from a column whose name ends with a
\* line break, for a model in which a table's own primary key has a name
\* that matches a pattern (orders.user_id and notes.note_id of lines.db)
InferredWellFormedWitness ==
    /\ last_call.op = "_find_potential_relationships"
    /\ \E i \in 1..Len(last_call.ret) :
         /\ last_call.ret[i][1] = <<"o","r","d","e","r","s">>
         /\ last_call.ret[i][2] = <<"u","s","e","r","s">>
         /\ last_call.ret[i][3] = label(<<"u","s","e","r","_","i","d","\n">>, <<"i","d">>)
    /\ \E t \in 1..Len(tables) :
         /\ has_key(pk_columns(tables), tables[t].key)
         /\ pattern_match(patterns[1], str_lower(dict_get(pk_columns(tables), tables[t].key))) # None

\* C27: with explicit foreign keys present, every CREATE INDEX statement
\* _suggest_indexes returns for a table, definite or possible, names a
\* column of that table.
SuggestedColumnsExist ==
    (last_call.op = "_suggest_indexes" /\ Len(explicit_relationships) > 0)
      => \A t \in 1..Len(tables) :
           \A k \in 1..Len(suggested(last_call.ret, tables[t].key)) :
             \E col_name \in names_of(tables[t].key) :
               suggested(last_call.ret, tables[t].key)[k] = create_index(tables[t].key, col_name)

\* the bodies create_pattern matches in the text of the file at path
bodies_of(path) ==
    LET ms == create_matches(normalize(read_text(path)), 1)
    IN  [i \in 1..Len(ms) |-> ms[i].body]

\* "(" minus ")" in the first k fragments
paren_balance(defs, k) ==
    count(join(SubSeq(defs, 1, k), <<",">>), "(") - count(join(SubSeq(defs, 1, k), <<",">>), ")")

\* C28: the comma split of a CREATE TABLE body loses no text: the emitted
\* fragments joined with commas are the body, whether or not its
\* parentheses balance, and every fragment ends where the running
\* parenthesis count is zero.
SplitLosesNoText ==
    loaded("parse_sql_file")
      => \A i \in 1..Len(bodies_of(last_call.arg)) :
           /\ join(column_defs(bodies_of(last_call.arg)[i]), <<",">>) = bodies_of(last_call.arg)[i]
           /\ \A k \in 1..Len(column_defs(bodies_of(last_call.arg)[i])) :
                paren_balance(column_defs(bodies_of(last_call.arg)[i]), k) = 0

====
